---- MODULE Spec2Model ----
(***************************************************************************)
(* sst-cpputils: the lock-free single-producer/single-consumer ring        *)
(* buffers of include/sst/cpputils/ring_buffer.h (RingBufferInternal,      *)
(* SimpleRingBuffer, StereoRingBuffer) and the LRU cache (class LRU).      *)
(*                                                                         *)
(* Pushed elements are tagged 1, 2, 3, ... in push order (the code only    *)
(* moves and copies elements, it never inspects them); a default           *)
(* constructed element is 0.  A stereo frame with tag t is the pair        *)
(* (t, -t).  Arrays are indexed from 0 as in the source; argument and      *)
(* result vectors are sequences, so units[i] of the source is units[i+1].  *)
(***************************************************************************)
EXTENDS Integers, Sequences, FiniteSets, TLC

VARIABLES
    N,            \* template parameter N of the buffer
    MemoryOrder,  \* template parameter MemoryOrder
    kind,         \* which class is instantiated: "Simple" or "Stereo"
    subscribed_,  \* RingBufferInternal::subscribed_
    writePos_,    \* RingBufferInternal::writePos_
    readPos_,     \* RingBufferInternal::readPos_
    buf_,         \* SimpleRingBuffer::buf_
    bufL_,        \* StereoRingBuffer::bufL_
    bufR_,        \* StereoRingBuffer::bufR_
    nextVal,      \* tag of the next element to be pushed
    last,         \* the last completed operation: its name, arguments, result
    pre,          \* the state that operation started from
    run,          \* single pushes since the buffer was last empty, no pop between
    runOk,        \* TRUE while run is such an unbroken sequence of single pushes
    lost,         \* the elements of such sequences that the popall after them
                  \* did not return, where they are followed (SpecUsedBuffer)
    pcP,          \* producer thread: position inside push
    pPos,         \* producer thread: local pos of push
    pUnit,        \* producer thread: tag of the element being pushed
    pPending,     \* producer thread: memory effects of push not yet visible
    pcC,          \* consumer thread: position inside pop
    cItemL,       \* consumer thread: value read from buf_ / bufL_
    cItemR,       \* consumer thread: value read from bufR_
    popped,       \* values returned by the successful pops, in order
    overrun,      \* TRUE once pushes started minus elements popped exceeded N-1
    overlapped,   \* TRUE once a push and a pop were in progress at the same time
    pUnits,       \* producer thread: the array given to the bulk push
    pCount,       \* producer thread: local sz of the bulk push
    pOff,         \* producer thread: how far the bulk push advanced units
    pIdx,         \* producer thread: elements std::copy has stored so far
    cV,           \* consumer thread: the vector v of popall
    cCount,       \* consumer thread: local sz of popall
    cIdx,         \* consumer thread: elements std::move has moved so far
    lapped,       \* TRUE once the producer stored into a slot that the popall in
                  \* progress had counted and not yet moved out
    raced         \* TRUE once a push was in progress while that popall ran

VARIABLES
    lockKind,     \* LRU: "lock_guard" (the class with std::lock_guard), "mutex"
                  \* (lock_free = false, the default) or "lock_free" (lock_free = true)
    max_,         \* LRU::max_
    l_,           \* LRU::l_, front first
    m_,           \* LRU::m_
    lock_,        \* LRU::lock_: TRUE while the mutex is held
    lruCalls,     \* number of calls of get so far
    lruStatus,    \* "ok", "blocked" (a call does not return from lock()) or
                  \* "crashed" (evict() ran on an empty list)
    lruLast,      \* the last call of get: its key, outcome and result
    lruPre,       \* the cache that call started from
    lruOrder      \* the keys given to get, the most recent returned call first

VARIABLES
    activeSetNext,  \* active_set_overlay: participant::activeSetNext of each T
    activeSetPrev,  \* active_set_overlay: participant::activeSetPrev of each T
    activeHead,     \* active_set_overlay::activeHead
    activeCount,    \* active_set_overlay::activeCount
    asLast,         \* the last call on the overlay: its name, argument, result
    asPre           \* the overlay and the links that call started from

VARIABLES
    blockN,         \* fixed_memory_allocator_impl: template parameter N
    sizeofT,        \* fixed_memory_allocator_impl: sizeof(T)
    ndebug,         \* TRUE in a build with NDEBUG defined (assert does nothing)
    objects,        \* the allocator objects: whether each is alive, and its
                    \* members data_, used_, refCount_ (the number of the block
                    \* they point into, or nullptr) and dataOwner_
    heap,           \* the blocks made by new, in order: *refCount_, used_[0..N-1]
                    \* and how many times the block was deleted
    faLive,         \* the allocations returned by allocate and not yet deallocated
    faStatus,       \* "ok", or "crashed" once a call did not return normally
    faLast,         \* the last call on an allocator: its name, arguments, result
    faPre           \* the heap that call started from, and the one before

VARIABLES
    eraseContainer, \* nodal_erase_if: the elements of container, in order
    eraseQ,         \* nodal_erase_if: the values for which the predicate q is true
    eraseIt,        \* nodal_erase_if: the position it refers to, end() being one
                    \* past the last element
    erasePc,        \* nodal_erase_if: "idle", "loop" or "returned"
    eraseOriginal,  \* the elements of container when nodal_erase_if was called
    eraseSteps      \* iterations of the loop made so far

lruVars == <<lockKind, max_, l_, m_, lock_, lruCalls, lruStatus, lruLast, lruPre,
             lruOrder>>
eraseVars == <<eraseContainer, eraseQ, eraseIt, erasePc, eraseOriginal, eraseSteps>>
faVars == <<blockN, sizeofT, ndebug, objects, heap, faLive, faStatus, faLast, faPre>>
asVars == <<activeSetNext, activeSetPrev, activeHead, activeCount, asLast, asPre>>
\* the variables of the other classes, which no ring buffer operation touches
otherVars == <<lruVars, asVars, faVars, eraseVars>>
ringVars == <<N, MemoryOrder, kind, subscribed_, writePos_, readPos_, buf_, bufL_,
              bufR_, nextVal, last, pre, run, runOk, lost, pcP, pPos, pUnit, pPending,
              pcC, cItemL, cItemR, popped, overrun, overlapped, pUnits, pCount,
              pOff, pIdx, cV, cCount, cIdx, lapped, raced>>
cfgVars == <<N, MemoryOrder, kind, otherVars>>
posVars == <<subscribed_, writePos_, readPos_>>
bufVars == <<buf_, bufL_, bufR_>>
histVars == <<last, pre, run, runOk, lost>>
bulkVars == <<pUnits, pCount, pOff, pIdx, cV, cCount, cIdx, lapped, raced>>
threadVars == <<pcP, pPos, pUnit, pPending, pcC, cItemL, cItemR, popped, overrun,
               overlapped, bulkVars>>
vars == <<cfgVars, posVars, bufVars, nextVal, histVars, threadVars>>

----------------------------------------------------------------------------
(* Bounds of the model. *)

\* N ranges over the powers of two 2^0 .. 2^MaxLogN
MaxLogN == 2
\* number of elements pushed in one behaviour
MaxVal == 5
\* longest vector given to a bulk push
MaxLen == 5
\* largest difference of the lengths of the two vectors of a stereo bulk push
MaxSkew == 1
\* largest maximum given to the LRU constructor
MaxMaximum == 2
\* the keys given to LRU::get are 1 .. MaxKey
MaxKey == 3
\* number of calls of LRU::get in one behaviour
MaxCalls == 5
\* size of the pool of T objects an active_set_overlay is laid over
MaxThings == 4
\* number of fixed_memory_allocator objects that exist at the same time
MaxAllocators == 3
\* number of blocks allocated in one behaviour
MaxBlocks == 2
\* largest template parameter N of fixed_memory_allocator
MaxBytes == 6
\* largest number of objects asked of allocate that does not overflow
MaxCount == 3
\* largest container given to nodal_erase_if
MaxSize == 4
\* the elements of that container are 1 .. MaxElement
MaxElement == 3

(* Width of std::size_t, and its representation as 16-bit limbs (the model  *)
(* checker's integers are 32 bits wide).                                   *)
SizeBits == 64
LimbBase == 2^16
NumLimbs == SizeBits \div 16

----------------------------------------------------------------------------
(* LRU<Key, Value>: the list l_ is a sequence of nodes, front first; a node  *)
(* is [node, key, value], where node is the identity an iterator refers to  *)
(* and value the shared object [obj, arg] made from the constructor         *)
(* argument arg.                                                            *)

\* m_.end(): no node has this identity
End == 0

\* m_.find(key)
find(m, key) == IF key \in DOMAIN m THEN m[key] ELSE End

\* the position in l of the node the iterator refers to
NodeAt(l, iter) == CHOOSE i \in 1..Len(l) : l[i].node = iter

\* l_.splice(l_.begin(), l_, iter)
to_front(l, iter) ==
    LET i == NodeAt(l, iter)
    IN  <<l[i]>> \o SubSeq(l, 1, i - 1) \o SubSeq(l, i + 1, Len(l))

\* the mutant of evict: nothing is removed
evict_Nothing(l, m) == [l |-> l, m |-> m]

\* the mutant of evict: the entry of m_ is left behind
evict_ListOnly(l, m) == [l |-> SubSeq(l, 1, Len(l) - 1), m |-> m]

\* auto elt = l_.back(); m_.erase(elt.first); l_.pop_back();
evict(l, m) ==
    LET elt == l[Len(l)]
    IN  [l |-> SubSeq(l, 1, Len(l) - 1),
         m |-> [k \in DOMAIN m \ {elt.key} |-> m[k]]]

\* l_.push_front(ListElt(key, v))
push_front(l, elt) == <<elt>> \o l

\* m_.emplace(key, iter): no effect when the key is present
emplace(m, key, iter) ==
    IF key \in DOMAIN m THEN m
    ELSE [k \in DOMAIN m \cup {key} |-> IF k = key THEN iter ELSE m[k]]

\* get between lock() and the return statement, where the new node and value
\* (if any) get the identity id; unlocked tells whether unlock() was called
getBody(l, m, maximum, key, arg, id) ==
    LET it == find(m, key)
    IN  IF it = End
        THEN LET v    == [obj |-> id, arg |-> arg]
                 full == Len(l) = maximum
                 e    == IF full THEN evict(l, m) ELSE [l |-> l, m |-> m]
                 l2   == push_front(e.l, [node |-> id, key |-> key, value |-> v])
             IN  [hit |-> FALSE, ret |-> v, l |-> l2,
                  m |-> emplace(e.m, key, l2[1].node),
                  evicted |-> IF full THEN <<l[Len(l)]>> ELSE <<>>,
                  unlocked |-> FALSE]
        ELSE LET l2 == to_front(l, it)
             IN  [hit |-> TRUE, ret |-> l2[NodeAt(l2, it)].value, l |-> l2, m |-> m,
                  evicted |-> <<>>, unlocked |-> TRUE]

\* explicit LRU(std::size_t maximum), as the class lk
LRUConstructed(maximum, lk) ==
    /\ lockKind = lk
    /\ max_ = maximum
    /\ l_ = <<>>
    /\ m_ = <<>>
    /\ lock_ = FALSE
    /\ lruCalls = 0
    /\ lruStatus = "ok"
    /\ lruLast = [op |-> "init", key |-> 0, outcome |-> "returned", hit |-> FALSE,
                  ret |-> <<>>, evicted |-> <<>>]
    /\ lruPre = [l |-> <<>>, m |-> <<>>, lock |-> FALSE, order |-> <<>>]
    /\ lruOrder = <<>>

\* no LRU is in use
LRUUnused == LRUConstructed(0, "lock_guard")

\* s without the key
Without(s, key) == SelectSeq(s, LAMBDA k : k # key)

\* one call of get with the constructor argument arg.  lock() on a std::mutex
\* that the calling thread already holds is undefined: relock says whether
\* that call never returns ("deadlock") or goes on as if the mutex were free
\* ("noop", a build without thread support).  evict() on an empty list is
\* undefined as well: the cache is not followed further.
GetCall(key, arg, relock) ==
    /\ lruStatus = "ok"
    /\ lruCalls < MaxCalls
    /\ lruCalls' = lruCalls + 1
    /\ lruPre' = [l |-> l_, m |-> m_, lock |-> lock_, order |-> lruOrder]
    /\ IF lockKind # "lock_free" /\ lock_ /\ relock = "deadlock"
       THEN /\ lruStatus' = "blocked"
            /\ lruLast' = [op |-> "get", key |-> key, outcome |-> "blocked",
                           hit |-> FALSE, ret |-> <<>>, evicted |-> <<>>]
            /\ UNCHANGED <<l_, m_, lock_, lruOrder>>
       ELSE IF find(m_, key) = End /\ Len(l_) = max_ /\ l_ = <<>>
       THEN /\ lruStatus' = "crashed"
            /\ lruLast' = [op |-> "get", key |-> key, outcome |-> "crashed",
                           hit |-> FALSE, ret |-> <<>>, evicted |-> <<>>]
            /\ lock_' = (lockKind # "lock_free")
            /\ UNCHANGED <<l_, m_, lruOrder>>
       ELSE LET r == getBody(l_, m_, max_, key, arg, lruCalls + 1)
            IN  /\ l_' = r.l
                /\ m_' = r.m
                /\ lock_' = (lockKind = "mutex" /\ ~r.unlocked)
                /\ lruStatus' = "ok"
                /\ lruLast' = [op |-> "get", key |-> key, outcome |-> "returned",
                               hit |-> r.hit, ret |-> <<r.ret>>,
                               evicted |-> r.evicted]
                /\ lruOrder' = <<key>> \o Without(lruOrder, key)
    /\ UNCHANGED <<lockKind, max_, ringVars, asVars, faVars, eraseVars>>

\* std::shared_ptr<Value> get(const Key &key): the value is made from the key
Get ==
    \E key \in 1..MaxKey, relock \in {"deadlock", "noop"} :
        GetCall(key, key, relock)

\* std::shared_ptr<Value> get(const Key &key, ConstructionArgs &&...args): the
\* value is made from the arguments, here the one argument -key
GetArgs ==
    \E key \in 1..MaxKey, relock \in {"deadlock", "noop"} :
        GetCall(key, -key, relock)

NextLRU ==
    \/ Get
    \/ GetArgs

----------------------------------------------------------------------------
(* active_set_overlay<T>: the pool is the objects 1 .. MaxThings, a T* is    *)
(* the number of the object it points to.  An overlay together with the     *)
(* link pointers of the pool is the record [next, prev, head, count].       *)

nullptr == 0

Things == 1..MaxThings

\* the mutant of addToActive: only activeSetNext is tested
addToActive_NextOnly(st, s) ==
    IF st.next[s] = nullptr
    THEN IF s = st.head
         THEN st
         ELSE [next  |-> [st.next EXCEPT ![s] = st.head],
               prev  |-> IF st.head # nullptr
                         THEN [st.prev EXCEPT ![st.head] = s]
                         ELSE st.prev,
               head  |-> s,
               count |-> st.count + 1]
    ELSE st

\* void addToActive(T *s)
addToActive(st, s) ==
    IF st.next[s] = nullptr /\ st.prev[s] = nullptr
    THEN IF s = st.head
         THEN st
         ELSE [next  |-> [st.next EXCEPT ![s] = st.head],
               prev  |-> IF st.head # nullptr
                         THEN [st.prev EXCEPT ![st.head] = s]
                         ELSE st.prev,
               head  |-> s,
               count |-> st.count + 1]
    ELSE st

\* the mutant of removeFromActive: activeSetPrev of s is not reset
removeFromActive_KeepsPrev(st, s) ==
    IF ~(st.next[s] # nullptr \/ st.prev[s] # nullptr \/ s = st.head)
    THEN [st |-> st, ret |-> FALSE]
    ELSE LET head1 == IF s = st.head THEN st.next[s] ELSE st.head
             next1 == IF st.prev[s] # nullptr
                      THEN [st.next EXCEPT ![st.prev[s]] = st.next[s]]
                      ELSE st.next
             prev1 == IF next1[s] # nullptr
                      THEN [st.prev EXCEPT ![next1[s]] = st.prev[s]]
                      ELSE st.prev
         IN  [st  |-> [next  |-> [next1 EXCEPT ![s] = nullptr],
                       prev  |-> prev1,
                       head  |-> head1,
                       count |-> st.count - 1],
              ret |-> TRUE]

\* the mutant of removeFromActive: activeSetPrev of the successor is left
\* pointing to s
removeFromActive_SuccessorKeepsPrev(st, s) ==
    IF ~(st.next[s] # nullptr \/ st.prev[s] # nullptr \/ s = st.head)
    THEN [st |-> st, ret |-> FALSE]
    ELSE LET head1 == IF s = st.head THEN st.next[s] ELSE st.head
             next1 == IF st.prev[s] # nullptr
                      THEN [st.next EXCEPT ![st.prev[s]] = st.next[s]]
                      ELSE st.next
         IN  [st  |-> [next  |-> [next1 EXCEPT ![s] = nullptr],
                       prev  |-> [st.prev EXCEPT ![s] = nullptr],
                       head  |-> head1,
                       count |-> st.count - 1],
              ret |-> TRUE]

\* bool removeFromActive(T *s): the overlay and links after the call, and the
\* value returned
removeFromActive(st, s) ==
    IF ~(st.next[s] # nullptr \/ st.prev[s] # nullptr \/ s = st.head)
    THEN [st |-> st, ret |-> FALSE]
    ELSE LET head1 == IF s = st.head THEN st.next[s] ELSE st.head
             next1 == IF st.prev[s] # nullptr
                      THEN [st.next EXCEPT ![st.prev[s]] = st.next[s]]
                      ELSE st.next
             prev1 == IF next1[s] # nullptr
                      THEN [st.prev EXCEPT ![next1[s]] = st.prev[s]]
                      ELSE st.prev
         IN  [st  |-> [next  |-> [next1 EXCEPT ![s] = nullptr],
                       prev  |-> [prev1 EXCEPT ![s] = nullptr],
                       head  |-> head1,
                       count |-> st.count - 1],
              ret |-> TRUE]

\* void removeAll()
RECURSIVE removeAll(_)
removeAll(st) ==
    IF st.head # nullptr
    THEN removeAll(removeFromActive(st, st.head).st)
    ELSE st

\* the mutant of erase: the element is unlinked and activeCount is left alone
erase_KeepsCount(st, el) ==
    [st |-> [removeFromActive(st, el).st EXCEPT !.count = st.count],
     ret |-> st.next[el]]

\* the mutant of erase: activeSetNext is read after the element was removed
erase_ReadsNextAfterRemoval(st, el) ==
    [st |-> removeFromActive(st, el).st, ret |-> removeFromActive(st, el).st.next[el]]

\* iterator erase(const iterator &el), el pointing to an object of the pool
erase(st, el) ==
    [st |-> removeFromActive(st, el).st, ret |-> st.next[el]]

\* the objects a loop from the iterator ptr to end() visits, in order; the
\* loop is followed for at most fuel steps
RECURSIVE Iterate(_, _, _)
Iterate(st, ptr, fuel) ==
    IF ptr = nullptr \/ fuel = 0
    THEN <<>>
    ELSE <<ptr>> \o Iterate(st, st.next[ptr], fuel - 1)

\* for (auto &x : as): the objects visited from begin() to end().  A loop
\* that does not end shows as more than MaxThings objects.
Visited(st) == Iterate(st, st.head, MaxThings + 1)

\* for (auto it = as.begin(); it != as.end();) it = q(*it) ? as.erase(it) : ++it;
\* from the iterator ptr on, with q the set of objects to erase: the objects
\* visited in order, the overlay left and the iterator the loop stopped at.
\* The loop is followed for at most fuel steps.
RECURSIVE EraseLoop(_, _, _, _)
EraseLoop(st, ptr, q, fuel) ==
    IF ptr = nullptr \/ fuel = 0
    THEN [visited |-> <<>>, st |-> st, it |-> ptr]
    ELSE LET r    == IF ptr \in q THEN erase(st, ptr) ELSE [st |-> st, ret |-> st.next[ptr]]
             rest == EraseLoop(r.st, r.ret, q, fuel - 1)
         IN  [visited |-> <<ptr>> \o rest.visited, st |-> rest.st, it |-> rest.it]

\* the overlay and the links of the pool in the current state
Overlay ==
    [next |-> activeSetNext, prev |-> activeSetPrev, head |-> activeHead,
     count |-> activeCount]

\* one call on the overlay that leaves it as st
OverlayCall(opn, arg, st, ret) ==
    /\ activeSetNext' = st.next
    /\ activeSetPrev' = st.prev
    /\ activeHead' = st.head
    /\ activeCount' = st.count
    /\ asLast' = [op |-> opn, arg |-> arg, ret |-> ret]
    /\ asPre' = Overlay
    /\ UNCHANGED <<ringVars, lruVars, faVars, eraseVars>>

\* a default constructed overlay over a pool of n default constructed
\* participants
OverlayConstructed(n) ==
    /\ activeSetNext = [t \in 1..n |-> nullptr]
    /\ activeSetPrev = [t \in 1..n |-> nullptr]
    /\ activeHead = nullptr
    /\ activeCount = 0
    /\ asLast = [op |-> "init", arg |-> nullptr, ret |-> <<>>]
    /\ asPre = [next |-> [t \in 1..n |-> nullptr],
                prev |-> [t \in 1..n |-> nullptr], head |-> nullptr, count |-> 0]

\* no overlay is in use
ActiveSetUnused == OverlayConstructed(0)

AddToActive ==
    \E s \in Things : OverlayCall("addToActive", s, addToActive(Overlay, s), <<>>)

RemoveFromActive ==
    \E s \in Things :
        LET r == removeFromActive(Overlay, s)
        IN  OverlayCall("removeFromActive", s, r.st, <<r.ret>>)

RemoveAll ==
    OverlayCall("removeAll", nullptr, removeAll(Overlay), <<>>)

Erase ==
    \E el \in Things :
        LET r == erase(Overlay, el)
        IN  OverlayCall("erase", el, r.st, <<r.ret>>)

NextActiveSet ==
    \/ AddToActive
    \/ RemoveFromActive
    \/ RemoveAll
    \/ Erase

----------------------------------------------------------------------------
(* nodal_erase_if(container, q) on a node-based container: erase(it) removes *)
(* the element it refers to and returns the iterator to the one after it.   *)

\* container.end()
EraseEnd == Len(eraseContainer) + 1

\* nodal_erase_if is called on the container c with the predicate q
EraseCalled(c, q) ==
    /\ eraseContainer = c
    /\ eraseQ = q
    /\ eraseIt = 1
    /\ erasePc = "loop"
    /\ eraseOriginal = c
    /\ eraseSteps = 0

\* nodal_erase_if is not in use
EraseUnused ==
    /\ eraseContainer = <<>>
    /\ eraseQ = {}
    /\ eraseIt = 1
    /\ erasePc = "idle"
    /\ eraseOriginal = <<>>
    /\ eraseSteps = 0

\* the mutant of EraseStep: the iterator is incremented after erase as well
EraseStep_AlsoIncrements ==
    /\ erasePc = "loop"
    /\ eraseIt # EraseEnd
    /\ eraseContainer[eraseIt] \in eraseQ
    /\ eraseContainer' = SubSeq(eraseContainer, 1, eraseIt - 1)
                            \o SubSeq(eraseContainer, eraseIt + 1,
                                      Len(eraseContainer))
    /\ eraseIt' = IF eraseIt = Len(eraseContainer) THEN eraseIt ELSE eraseIt + 1
    /\ eraseSteps' = eraseSteps + 1
    /\ UNCHANGED <<eraseQ, erasePc, eraseOriginal, ringVars, lruVars, asVars, faVars>>

\* if (q(*it)) it = container.erase(it);
EraseStep ==
    /\ erasePc = "loop"
    /\ eraseIt # EraseEnd
    /\ eraseContainer[eraseIt] \in eraseQ
    /\ eraseContainer' = SubSeq(eraseContainer, 1, eraseIt - 1)
                            \o SubSeq(eraseContainer, eraseIt + 1,
                                      Len(eraseContainer))
    /\ eraseIt' = eraseIt
    /\ eraseSteps' = eraseSteps + 1
    /\ UNCHANGED <<eraseQ, erasePc, eraseOriginal, ringVars, lruVars, asVars, faVars>>

\* else ++it;
KeepStep ==
    /\ erasePc = "loop"
    /\ eraseIt # EraseEnd
    /\ eraseContainer[eraseIt] \notin eraseQ
    /\ eraseIt' = eraseIt + 1
    /\ eraseSteps' = eraseSteps + 1
    /\ UNCHANGED <<eraseContainer, eraseQ, erasePc, eraseOriginal, ringVars,
                   lruVars, asVars, faVars>>

\* it != container.end() is false: the loop and the function end
EraseReturn ==
    /\ erasePc = "loop"
    /\ eraseIt = EraseEnd
    /\ erasePc' = "returned"
    /\ UNCHANGED <<eraseContainer, eraseQ, eraseIt, eraseOriginal, eraseSteps,
                   ringVars, lruVars, asVars, faVars>>

NextErase ==
    \/ EraseStep
    \/ KeepStep
    \/ EraseReturn

----------------------------------------------------------------------------
(* std::size_t arithmetic. *)

Min(a, b) == IF a < b THEN a ELSE b
Max(a, b) == IF a > b THEN a ELSE b

RECURSIVE BitAnd(_, _)
BitAnd(a, b) ==
    IF a = 0 \/ b = 0 THEN 0
    ELSE (a % 2) * (b % 2) + 2 * BitAnd(a \div 2, b \div 2)

RECURSIVE Limb(_, _)
Limb(n, i) == IF i = 1 THEN n % LimbBase ELSE Limb(n \div LimbBase, i - 1)

\* a size_t holding the natural number n
ToSizeT(n) == [i \in 1..NumLimbs |-> Limb(n, i)]

RECURSIVE LimbsValue(_, _)
LimbsValue(x, i) ==
    IF i > NumLimbs THEN 0 ELSE x[i] + LimbBase * LimbsValue(x, i + 1)

\* the natural number held by a size_t (below 2^31 wherever the model uses it)
FromSizeT(x) == LimbsValue(x, 1)

RECURSIVE SubBorrow(_, _, _, _)
SubBorrow(x, y, i, borrow) ==
    IF i > NumLimbs THEN <<>>
    ELSE LET d == x[i] - y[i] - borrow
         IN  <<IF d < 0 THEN d + LimbBase ELSE d>>
                 \o SubBorrow(x, y, i + 1, IF d < 0 THEN 1 ELSE 0)

\* unsigned a - b, wrapping modulo 2^SizeBits
SizeSub(a, b) == SubBorrow(ToSizeT(a), ToSizeT(b), 1, 0)

\* val & (N - 1) on a size_t
maskBits(x) ==
    LET m == ToSizeT(N - 1)
    IN  FromSizeT([i \in 1..NumLimbs |-> BitAnd(x[i], m[i])])

\* the mutant of mask: no wrap at the end of the array
mask_NoWrap(val) == val

mask(val) == maskBits(ToSizeT(val))

IsPowerOfTwo(x) == x # 0 /\ BitAnd(x, x - 1) = 0

RECURSIVE MulCarry(_, _, _, _)
MulCarry(x, c, i, carry) ==
    IF i > NumLimbs THEN <<>>
    ELSE LET p == x[i] * c + carry
         IN  <<p % LimbBase>> \o MulCarry(x, c, i + 1, p \div LimbBase)

\* unsigned x * c on a size_t x, wrapping modulo 2^SizeBits
SizeMul(x, c) == MulCarry(x, c, 1, 0)

\* x > k for a size_t x and a natural number k below LimbBase
SizeGreater(x, k) == (\E i \in 2..NumLimbs : x[i] # 0) \/ x[1] > k

----------------------------------------------------------------------------
(* fixed_memory_allocator_impl<T, N>: the allocator objects and the blocks   *)
(* they share.  operator=(const fixed_memory_allocator_impl &) assigns to    *)
(* the members of its const argument (fixed_allocater.h:107-110): a program  *)
(* that calls it does not compile, so it is no operation of the model.       *)

Allocators == 1..MaxAllocators

\* an object that does not exist (before construction, after destruction)
NoObject ==
    [alive |-> FALSE, data_ |-> nullptr, used_ |-> nullptr, refCount_ |-> nullptr,
     dataOwner_ |-> FALSE]

\* data_ = new std::uint8_t[N]; used_ = new bool[N]; refCount_ = new size_t;
\* memset(used_, 0, N); *refCount_ = 1;
NewBlock(n) ==
    [refCount |-> 1, used |-> [i \in 0..(n - 1) |-> FALSE], deleted |-> 0]

\* T, N and the build are chosen, no allocator has been constructed
AllocatorConfigured(n, sot, nd) ==
    /\ blockN = n
    /\ sizeofT = sot
    /\ ndebug = nd
    /\ objects = [a \in Allocators |-> NoObject]
    /\ heap = <<>>
    /\ faLive = {}
    /\ faStatus = "ok"
    /\ faLast = [op |-> "init", obj |-> 0, other |-> 0, args |-> <<>>,
                 outcome |-> "returned", ret |-> <<>>, valid |-> TRUE,
                 beyond |-> FALSE]
    /\ faPre = [objects |-> [a \in Allocators |-> NoObject], heap |-> <<>>,
                live |-> {}, op |-> "init", made |-> <<>>, before |-> <<>>]

\* no allocator is in use
AllocatorUnused == AllocatorConfigured(1, 1, TRUE)

\* one call on the allocator object obj that leaves the objects as objs, the
\* heap as hp and the live allocations as live
AllocatorCall(opn, obj, other, args, objs, hp, live, outcome, ret, valid, beyond) ==
    /\ faStatus = "ok"
    /\ objects' = objs
    /\ heap' = hp
    /\ faLive' = live
    /\ faStatus' = IF outcome \in {"returned", "threw"} THEN "ok" ELSE "crashed"
    /\ faLast' = [op |-> opn, obj |-> obj, other |-> other, args |-> args,
                  outcome |-> outcome, ret |-> ret, valid |-> valid,
                  beyond |-> beyond]
    /\ faPre' = [objects |-> objects, heap |-> heap, live |-> faLive,
                 op |-> faLast.op,
                 made |-> IF faLast.op = "allocate" /\ faLast.outcome = "returned"
                          THEN <<[at |-> faLast.ret[1], n |-> faLast.args[1]]>>
                          ELSE <<>>,
                 before |-> IF opn \in {"allocate", "deallocate"}
                            THEN faPre.heap ELSE <<>>]
    /\ UNCHANGED <<blockN, sizeofT, ndebug, ringVars, lruVars, asVars, eraseVars>>

\* the pointer refers to a block that was made by new and not deleted since
Dereferenceable(ptr) == ptr # nullptr /\ heap[ptr].deleted = 0

\* explicit fixed_memory_allocator_impl(bool allocate)
Construct ==
    \E a \in Allocators, allocate \in BOOLEAN :
        /\ ~objects[a].alive
        /\ Len(heap) < MaxBlocks
        /\ IF allocate
           THEN LET b == Len(heap) + 1
                IN  AllocatorCall("construct", a, 0, <<>>,
                        [objects EXCEPT ![a] =
                            [alive |-> TRUE, data_ |-> b, used_ |-> b,
                             refCount_ |-> b, dataOwner_ |-> allocate]],
                        Append(heap, NewBlock(blockN)), faLive,
                        "returned", <<>>, TRUE, FALSE)
           ELSE AllocatorCall("construct", a, 0, <<>>, objects, heap, faLive,
                        "threw", <<>>, TRUE, FALSE)

\* the body the rebind, copy and move constructors have in common: the new
\* object a shares the block of other.  *refCount_ += 1 through a null or
\* dangling pointer is undefined: the behaviour is not followed further.
Share(opn, a, other) ==
    /\ ~objects[a].alive
    /\ objects[other].alive
    /\ LET o == objects[other]
           objs == [objects EXCEPT ![a] =
                       [alive |-> TRUE, data_ |-> o.data_, used_ |-> o.used_,
                        refCount_ |-> o.refCount_, dataOwner_ |-> FALSE]]
       IN  IF Dereferenceable(o.refCount_)
           THEN AllocatorCall(opn, a, other, <<>>, objs,
                    [heap EXCEPT ![o.refCount_].refCount = @ + 1], faLive,
                    "returned", <<>>, TRUE, FALSE)
           ELSE AllocatorCall(opn, a, other, <<>>, objs, heap, faLive,
                    "fault", <<>>, FALSE, FALSE)

\* template <typename U>
\* fixed_memory_allocator_impl(const fixed_memory_allocator_impl<U, N> &other)
RebindConstruct ==
    \E a, other \in Allocators : Share("rebind", a, other)

\* fixed_memory_allocator_impl(const fixed_memory_allocator_impl &other)
CopyConstruct ==
    \E a, other \in Allocators : Share("copy", a, other)

\* fixed_memory_allocator_impl(const fixed_memory_allocator_impl &&other)
MoveConstruct ==
    \E a, other \in Allocators : Share("move", a, other)

\* fixed_memory_allocator_impl &operator=(fixed_memory_allocator_impl &&other)
MoveAssign ==
    \E a, other \in Allocators :
        /\ objects[a].alive
        /\ objects[other].alive
        /\ LET o == objects[other]
           IN  IF a = other
               THEN AllocatorCall("assign", a, other, <<>>, objects, heap,
                        faLive, "returned", <<>>, TRUE, FALSE)
               ELSE AllocatorCall("assign", a, other, <<>>,
                        [objects EXCEPT
                            ![a] = [alive |-> TRUE, data_ |-> o.data_,
                                    used_ |-> o.used_, refCount_ |-> o.refCount_,
                                    dataOwner_ |-> o.dataOwner_],
                            ![other] = [alive |-> TRUE, data_ |-> nullptr,
                                        used_ |-> nullptr, refCount_ |-> nullptr,
                                        dataOwner_ |-> FALSE]],
                        heap, faLive, "returned", <<>>, TRUE, FALSE)

\* ~fixed_memory_allocator_impl().  *refCount_ -= 1 through a null or dangling
\* pointer is undefined.  refCount_ was made by new and is deleted by
\* delete[], which is undefined as well: mismatch says whether the block is
\* freed all the same ("freed") or the run time stops the program ("abort").
Destroy ==
    \E a \in Allocators, mismatch \in {"freed", "abort"} :
        /\ objects[a].alive
        /\ LET ptr  == objects[a].refCount_
               objs == [objects EXCEPT ![a] = NoObject]
           IN  IF ~Dereferenceable(ptr)
               THEN AllocatorCall("destroy", a, 0, <<>>, objs, heap, faLive,
                        "fault", <<>>, FALSE, FALSE)
               ELSE IF heap[ptr].refCount - 1 # 0
               THEN AllocatorCall("destroy", a, 0, <<>>, objs,
                        [heap EXCEPT ![ptr].refCount = @ - 1], faLive,
                        "returned", <<>>, TRUE, FALSE)
               ELSE IF ~ndebug /\ \E i \in 0..(blockN - 1) : heap[ptr].used[i]
               THEN AllocatorCall("destroy", a, 0, <<>>, objs,
                        [heap EXCEPT ![ptr].refCount = 0], faLive,
                        "asserted", <<>>, TRUE, FALSE)
               ELSE AllocatorCall("destroy", a, 0, <<>>, objs,
                        [heap EXCEPT ![ptr].refCount = 0, ![ptr].deleted = @ + 1],
                        faLive,
                        IF mismatch = "freed" THEN "returned" ELSE "abort",
                        <<>>, TRUE, FALSE)

\* used_[k].  An index past the end of the array reads what lies behind it
\* in memory: beyond is "used" (a byte that is not 0), "free" (a byte that
\* is 0) or "fault" (the read stops the program).
ReadUsed(used, k, beyond) == IF k < blockN THEN used[k] ELSE beyond = "used"

\* while (j < N - blockSize && used_[i + j]) ++j;
\* gives the final j and the largest index of used_ that was read
RECURSIVE SkipUsed(_, _, _, _, _, _)
SkipUsed(used, blockSize, i, j, beyond, top) ==
    IF j < blockN - blockSize
    THEN IF ReadUsed(used, i + j, beyond)
         THEN SkipUsed(used, blockSize, i, j + 1, beyond, Max(top, i + j))
         ELSE [j |-> j, top |-> Max(top, i + j)]
    ELSE [j |-> j, top |-> top]

\* for (std::size_t i = ...; i <= N - blockSize; ++i) of allocate, from i on:
\* whether a free block was found, where, and the largest index of used_ read
RECURSIVE Scan(_, _, _, _, _)
Scan(used, blockSize, i, beyond, top) ==
    IF i <= blockN - blockSize
    THEN LET hits == {j \in 0..(blockSize - 1) : used[i + j]}
         IN  IF hits = {}
             THEN [found |-> TRUE, at |-> i, top |-> Max(top, i + blockSize - 1)]
             ELSE LET j0 == CHOOSE j \in hits : \A h \in hits : j <= h
                      sk == SkipUsed(used, blockSize, i, j0, beyond,
                                     Max(top, i + j0))
                      i1 == IF sk.j > 0 THEN i + sk.j - 1 ELSE i
                  IN  Scan(used, blockSize, i1 + 1, beyond, sk.top)
    ELSE [found |-> FALSE, at |-> 0, top |-> top]

\* value_type *allocate(std::size_t n) on the usage map used: the outcome,
\* the offset returned, the map afterwards and the largest index read
allocate(used, n, beyond) ==
    LET bytes == SizeMul(n, sizeofT)
    IN  IF SizeGreater(bytes, blockN)
        THEN [outcome |-> "threw", at |-> 0, used |-> used, top |-> -1]
        ELSE LET blockSize == FromSizeT(bytes)
                 r == Scan(used, blockSize, 0, beyond, -1)
             IN  IF r.top >= blockN /\ beyond = "fault"
                 THEN [outcome |-> "fault", at |-> 0, used |-> used, top |-> r.top]
                 ELSE IF ~r.found
                 THEN [outcome |-> "threw", at |-> 0, used |-> used, top |-> r.top]
                 ELSE IF ~ndebug /\ used[r.at]
                 THEN [outcome |-> "asserted", at |-> r.at, used |-> used,
                       top |-> r.top]
                 ELSE [outcome |-> "returned", at |-> r.at,
                       used |-> [k \in 0..(blockN - 1) |->
                                   (r.at <= k /\ k < r.at + blockSize) \/ used[k]],
                       top |-> r.top]

\* void deallocate(value_type *p, std::size_t n), p at offset at of data_
deallocate(used, at, n) ==
    LET blockSize == FromSizeT(SizeMul(n, sizeofT))
    IN  [k \in 0..(blockN - 1) |->
            IF at <= k /\ k < at + blockSize THEN FALSE ELSE used[k]]

\* the numbers of objects asked of allocate: 0 .. MaxCount, and the two
\* smallest numbers n for which n * sizeof(T) does not fit a std::size_t
Requests ==
    {ToSizeT(k) : k \in 0..MaxCount}
        \cup {[i \in 1..NumLimbs |->
                 IF i = 1 THEN k ELSE IF i = NumLimbs THEN LimbBase \div sizeofT ELSE 0]
             : k \in IF sizeofT > 1 THEN 0..1 ELSE {}}

\* what a call of allocate can find behind the usage map: only a call that
\* reads there depends on it
Beyond(used, n) ==
    IF allocate(used, n, "free").top >= blockN
    THEN {"used", "free", "fault"}
    ELSE {"free"}

Allocate ==
    \E a \in Allocators, n \in Requests :
        /\ objects[a].alive
        /\ Dereferenceable(objects[a].used_)
        /\ \E beyond \in Beyond(heap[objects[a].used_].used, n) :
           \E r \in {allocate(heap[objects[a].used_].used, n, beyond)} :
           LET b == objects[a].used_
           IN  AllocatorCall("allocate", a, 0, <<n>>, objects,
                   [heap EXCEPT ![b].used = r.used],
                   IF r.outcome = "returned"
                   THEN faLive \cup {[at |-> r.at, n |-> n]} ELSE faLive,
                   r.outcome,
                   IF r.outcome = "returned" THEN <<r.at>> ELSE <<>>,
                   TRUE, r.top >= blockN)

\* deallocate is given a pointer that allocate returned and the n it was asked
Deallocate ==
    \E a \in Allocators, x \in faLive :
        /\ objects[a].alive
        /\ Dereferenceable(objects[a].used_)
        /\ LET b == objects[a].used_
           IN  AllocatorCall("deallocate", a, 0, <<x.at, x.n>>, objects,
                   [heap EXCEPT ![b].used = deallocate(heap[b].used, x.at, x.n)],
                   faLive \ {x}, "returned", <<>>, TRUE, FALSE)

NextAllocate ==
    \/ Allocate
    \/ Deallocate

NextAllocators ==
    \/ Construct
    \/ RebindConstruct
    \/ CopyConstruct
    \/ MoveConstruct
    \/ MoveAssign
    \/ Destroy

----------------------------------------------------------------------------
(* RingBufferInternal *)

empty == readPos_ = writePos_

\* the mutant of size: a subtraction that stops at 0 instead of wrapping
size_Saturating == IF writePos_ < readPos_ THEN 0 ELSE writePos_ - readPos_

size == maskBits(SizeSub(writePos_, readPos_))

\* the mutant of prepareToRead: the part past the end of the array is dropped
prepareToRead_NoWrap(rp, count) == <<Min(count, N - rp), 0>>

\* rp is the value of readPos_
prepareToRead(rp, count) ==
    LET sz1 == Min(count, N - rp)
        sz2 == IF sz1 < count THEN count - sz1 ELSE 0
    IN  <<sz1, sz2>>

\* the mutant of prepareToWrite: the first segment is not cut at the end of
\* the array
prepareToWrite_NoClamp(wp, count) == <<wp, count, 0>>

\* wp is the value loaded from writePos_
prepareToWrite(wp, count) ==
    LET pos == wp
        sz1 == Min(count, N - pos)
        sz2 == IF sz1 < count THEN count - sz1 ELSE 0
    IN  <<pos, sz1, sz2>>

\* what std::move leaves in the source object, for the element types of the
\* tests (int, float): the value itself
MovedFrom(x) == x

Default(n) == [i \in 0..(n - 1) |-> 0]

----------------------------------------------------------------------------
(* SimpleRingBuffer and StereoRingBuffer: the operations as functions of   *)
(* the array b (bL, bR), the read cursor rp and the write cursor wp.       *)

\* the mutant of pop: readPos_ is not advanced
pop_Stale(b, rp, wp) ==
    IF rp # wp
    THEN [has |-> TRUE, item |-> b[rp], readPos |-> rp, buf |-> b]
    ELSE [has |-> FALSE, item |-> 0, readPos |-> rp, buf |-> b]

\* the mutant of pop: the cursors are compared with < instead of !=
pop_LessThan(b, rp, wp) ==
    IF rp < wp
    THEN [has |-> TRUE, item |-> b[rp], readPos |-> mask(rp + 1), buf |-> b]
    ELSE [has |-> FALSE, item |-> 0, readPos |-> rp, buf |-> b]

\* the mutant of pop: the cursors are not compared
pop_Unchecked(b, rp, wp) ==
    [has |-> TRUE, item |-> b[rp], readPos |-> mask(rp + 1),
     buf |-> [b EXCEPT ![rp] = MovedFrom(b[rp])]]

\* pop(): the result, the new readPos_ and the array after the move
pop(b, rp, wp) ==
    IF rp # wp
    THEN [has |-> TRUE, item |-> b[rp], readPos |-> mask(rp + 1),
          buf |-> [b EXCEPT ![rp] = MovedFrom(b[rp])]]
    ELSE [has |-> FALSE, item |-> 0, readPos |-> rp, buf |-> b]

\* the mutant of the moves of popall: the second move starts at b + sz1
MoveOut_SecondOffset(b, rp, sz1, sz2) ==
    [i \in 1..(sz1 + sz2) |-> IF i <= sz1 THEN b[rp + i - 1] ELSE b[i - 1]]

\* std::move(b + rp, b + rp + sz1, it), then std::move(b, b + sz2, it)
MoveOut(b, rp, sz1, sz2) ==
    [i \in 1..(sz1 + sz2) |-> IF i <= sz1 THEN b[rp + i - 1] ELSE b[i - sz1 - 1]]

AfterMoveOut(b, rp, sz1, sz2) ==
    [i \in DOMAIN b |->
        IF (rp <= i /\ i < rp + sz1) \/ i < sz2 THEN MovedFrom(b[i]) ELSE b[i]]

\* the mutant of popall: equal cursors are taken for a full array
popall_FullWhenEqual(b, rp, wp) ==
    LET sz == IF wp = rp THEN N ELSE maskBits(SizeSub(wp, rp))
        p  == prepareToRead(rp, sz)
    IN  [v |-> MoveOut(b, rp, p[1], p[2]),
         readPos |-> mask(rp + sz),
         buf |-> AfterMoveOut(b, rp, p[1], p[2])]

\* the mutant of popall: only the elements before the end of the array are
\* taken
popall_StopsAtEnd(b, rp, wp) ==
    LET sz == Min(maskBits(SizeSub(wp, rp)), N - rp)
        p  == prepareToRead(rp, sz)
    IN  [v |-> MoveOut(b, rp, p[1], p[2]),
         readPos |-> mask(rp + sz),
         buf |-> AfterMoveOut(b, rp, p[1], p[2])]

\* popall(): the vector, the new readPos_ and the array after the moves
popall(b, rp, wp) ==
    LET sz == maskBits(SizeSub(wp, rp))
        p  == prepareToRead(rp, sz)
    IN  [v |-> MoveOut(b, rp, p[1], p[2]),
         readPos |-> mask(rp + sz),
         buf |-> AfterMoveOut(b, rp, p[1], p[2])]

\* the mutant of the reduction loop of bulk push: sz % N instead of the loop
RECURSIVE Reduce_Mod(_, _)
Reduce_Mod(sz, off) ==
    IF sz >= N THEN Reduce_Mod(sz - N, off + N) ELSE <<sz, off>>

\* while (sz > N) { sz -= N; units += N; }: the reduced size and the offset
RECURSIVE Reduce(_, _)
Reduce(sz, off) ==
    IF sz > N THEN Reduce(sz - N, off + N) ELSE <<sz, off>>

\* std::copy(&units[from], &units[to], &b[dst])
Copy(b, units, from, to, dst) ==
    [i \in DOMAIN b |->
        IF dst <= i /\ i < dst + (to - from) THEN units[from + (i - dst) + 1] ELSE b[i]]

\* push(const T *units, std::size_t sz): the array and the new writePos_
pushArray(b, wp, units, sz0) ==
    LET r    == Reduce(sz0, 0)
        sz   == r[1]
        off  == r[2]
        p    == prepareToWrite(wp, sz)
        pos  == p[1]
        sz1  == p[2]
        sz2  == p[3]
        b1   == Copy(b, units, off, off + sz1, pos)
        pos1 == mask(pos + sz1)
        b2   == IF sz2 # 0 THEN Copy(b1, units, off + sz1, off + sz, pos1) ELSE b1
        pos2 == IF sz2 # 0 THEN mask(pos1 + sz2) ELSE pos1
    IN  [buf |-> b2, writePos |-> pos2]

\* push(T unit) called once for each element of units, in order: the array
\* and the new writePos_
RECURSIVE pushEach(_, _, _)
pushEach(b, wp, units) ==
    IF units = <<>>
    THEN [buf |-> b, writePos |-> wp]
    ELSE pushEach([b EXCEPT ![wp] = Head(units)], mask(wp + 1), Tail(units))

\* pop() called until it returns no value: the values returned in order, the
\* new readPos_ and the array after the moves
RECURSIVE popEach(_, _, _)
popEach(b, rp, wp) ==
    LET r == pop(b, rp, wp)
    IN  IF r.has
        THEN LET rest == popEach(r.buf, r.readPos, wp)
             IN  [v |-> <<r.item>> \o rest.v, readPos |-> rest.readPos, buf |-> rest.buf]
        ELSE [v |-> <<>>, readPos |-> r.readPos, buf |-> r.buf]

\* the vectors of tags a bulk push is called with
Units(first, len) == [i \in 1..len |-> first + i - 1]
Negated(s) == [i \in 1..Len(s) |-> -s[i]]

----------------------------------------------------------------------------
(* Bookkeeping of the last operation, for stating its effect. *)

Hist(opn, aL, aR, rL, rR) ==
    /\ last' = [op |-> opn, argL |-> aL, argR |-> aR, retL |-> rL, retR |-> rR]
    /\ pre' = [op |-> last.op, buf |-> buf_, bufL |-> bufL_, bufR |-> bufR_,
               writePos |-> writePos_, readPos |-> readPos_,
               subscribed |-> subscribed_, run |-> run, runOk |-> runOk]

RunPush(v) ==
    /\ run' = IF runOk THEN Append(run, v) ELSE run
    /\ runOk' = runOk
    /\ lost' = lost

RunBreak ==
    /\ run' = <<>>
    /\ runOk' = FALSE
    /\ lost' = lost

\* rp, wp: the cursors the consumer operation leaves
RunConsume(rp, wp) ==
    /\ run' = <<>>
    /\ runOk' = (rp = wp)
    /\ lost' = lost

\* the value of lost where the lost elements are not followed; no element
\* has the tag 0
NotFollowed == {0}

\* rp, wp: the cursors popall leaves; v: the vector it returns
RunDrain(rp, wp, v) ==
    /\ run' = <<>>
    /\ runOk' = (rp = wp)
    /\ lost' = IF runOk /\ lost # NotFollowed
               THEN lost \cup ({run[i] : i \in 1..Len(run)} \ {v[i] : i \in 1..Len(v)})
               ELSE lost

----------------------------------------------------------------------------
(* StereoRingBuffer: the operations on the two arrays. *)

\* the mutant of the stereo pop: the right channel is read at the next index
stereoPop_SkewedRight(bL, bR, rp, wp) ==
    IF rp # wp
    THEN [has |-> TRUE, itemL |-> bL[rp], itemR |-> bR[mask(rp + 1)],
          readPos |-> mask(rp + 1), bufL |-> bL, bufR |-> bR]
    ELSE [has |-> FALSE, itemL |-> 0, itemR |-> 0, readPos |-> rp,
          bufL |-> bL, bufR |-> bR]

stereoPop(bL, bR, rp, wp) ==
    IF rp # wp
    THEN LET pos == rp
         IN  [has |-> TRUE, itemL |-> bL[pos], itemR |-> bR[pos],
              readPos |-> mask(rp + 1),
              bufL |-> [bL EXCEPT ![pos] = MovedFrom(bL[pos])],
              bufR |-> [bR EXCEPT ![pos] = MovedFrom(bR[pos])]]
    ELSE [has |-> FALSE, itemL |-> 0, itemR |-> 0, readPos |-> rp,
          bufL |-> bL, bufR |-> bR]

stereoPopall(bL, bR, rp, wp) ==
    LET sz == maskBits(SizeSub(wp, rp))
        p  == prepareToRead(rp, sz)
    IN  [vL |-> MoveOut(bL, rp, p[1], p[2]),
         vR |-> MoveOut(bR, rp, p[1], p[2]),
         readPos |-> mask(rp + sz),
         bufL |-> AfterMoveOut(bL, rp, p[1], p[2]),
         bufR |-> AfterMoveOut(bR, rp, p[1], p[2])]

\* push(const T *unitsL, const T *unitsR, std::size_t sz)
stereoPushArray(bL, bR, wp, unitsL, unitsR, sz0) ==
    LET r    == Reduce(sz0, 0)
        sz   == r[1]
        off  == r[2]
        p    == prepareToWrite(wp, sz)
        pos  == p[1]
        sz1  == p[2]
        sz2  == p[3]
        bL1  == Copy(bL, unitsL, off, off + sz1, pos)
        bR1  == Copy(bR, unitsR, off, off + sz1, pos)
        pos1 == mask(pos + sz1)
        bL2  == IF sz2 # 0 THEN Copy(bL1, unitsL, off + sz1, off + sz, pos1) ELSE bL1
        bR2  == IF sz2 # 0 THEN Copy(bR1, unitsR, off + sz1, off + sz, pos1) ELSE bR1
        pos2 == IF sz2 # 0 THEN mask(pos1 + sz2) ELSE pos1
    IN  [bufL |-> bL2, bufR |-> bR2, writePos |-> pos2]

----------------------------------------------------------------------------
(* The buffer after construction. *)

InitBuffer ==
    /\ N \in {2^k : k \in 0..MaxLogN}
    /\ IsPowerOfTwo(N)
    /\ kind \in {"Simple", "Stereo"}
    /\ subscribed_ = FALSE
    /\ writePos_ = 0
    /\ readPos_ = 0
    /\ buf_ = Default(N)
    /\ bufL_ = Default(N)
    /\ bufR_ = Default(N)
    /\ nextVal = 1
    /\ last = [op |-> "init", argL |-> <<>>, argR |-> <<>>, retL |-> <<>>, retR |-> <<>>]
    /\ pre = [op |-> "init", buf |-> Default(N), bufL |-> Default(N), bufR |-> Default(N),
              writePos |-> 0, readPos |-> 0, subscribed |-> FALSE,
              run |-> <<>>, runOk |-> TRUE]
    /\ run = <<>>
    /\ runOk = TRUE
    /\ lost = NotFollowed
    /\ pcP = "idle"
    /\ pPos = 0
    /\ pUnit = 0
    /\ pPending = {}
    /\ pcC = "idle"
    /\ cItemL = 0
    /\ cItemR = 0
    /\ popped = <<>>
    /\ overrun = FALSE
    /\ overlapped = FALSE
    /\ pUnits = <<>>
    /\ pCount = 0
    /\ pOff = 0
    /\ pIdx = 0
    /\ cV = <<>>
    /\ cCount = 0
    /\ cIdx = 0
    /\ lapped = FALSE
    /\ raced = FALSE

\* one thread calls the operations one after the other
Init ==
    /\ InitBuffer
    /\ MemoryOrder = "relaxed"
    /\ LRUUnused
    /\ ActiveSetUnused
    /\ AllocatorUnused
    /\ EraseUnused

----------------------------------------------------------------------------
(* RingBufferInternal: operations called from one thread. *)

\* the mutant of clear: only the read cursor is reset
Clear_ReadPosOnly ==
    /\ readPos_' = 0
    /\ Hist("clear", <<>>, <<>>, <<>>, <<>>)
    /\ RunConsume(0, writePos_)
    /\ UNCHANGED <<cfgVars, subscribed_, writePos_, bufVars, nextVal, threadVars>>

Clear ==
    /\ readPos_' = 0
    /\ writePos_' = 0
    /\ Hist("clear", <<>>, <<>>, <<>>, <<>>)
    /\ RunConsume(0, 0)
    /\ UNCHANGED <<cfgVars, subscribed_, bufVars, nextVal, threadVars>>

Subscribe ==
    /\ subscribed_' = TRUE
    /\ Hist("subscribe", <<>>, <<>>, <<>>, <<>>)
    /\ UNCHANGED <<cfgVars, writePos_, readPos_, bufVars, nextVal, run, runOk, lost, threadVars>>

Unsubscribe ==
    /\ subscribed_' = FALSE
    /\ Hist("unsubscribe", <<>>, <<>>, <<>>, <<>>)
    /\ UNCHANGED <<cfgVars, writePos_, readPos_, bufVars, nextVal, run, runOk, lost, threadVars>>

\* bool empty() const
Empty ==
    /\ Hist("empty", <<>>, <<>>, <<empty>>, <<>>)
    /\ UNCHANGED <<cfgVars, posVars, bufVars, nextVal, run, runOk, lost, threadVars>>

\* std::size_t size() const
Size ==
    /\ Hist("size", <<>>, <<>>, <<size>>, <<>>)
    /\ UNCHANGED <<cfgVars, posVars, bufVars, nextVal, run, runOk, lost, threadVars>>

----------------------------------------------------------------------------
(* SimpleRingBuffer: operations called from one thread. *)

\* the mutant of push: a push that would make writePos_ meet readPos_ is dropped
Push_DropWhenFull ==
    /\ kind = "Simple"
    /\ nextVal <= MaxVal
    /\ LET pos  == writePos_
           full == mask(pos + 1) = readPos_
       IN  /\ buf_' = IF full THEN buf_ ELSE [buf_ EXCEPT ![pos] = nextVal]
           /\ writePos_' = IF full THEN pos ELSE mask(pos + 1)
    /\ nextVal' = nextVal + 1
    /\ Hist("push", <<nextVal>>, <<>>, <<>>, <<>>)
    /\ RunPush(nextVal)
    /\ UNCHANGED <<cfgVars, subscribed_, readPos_, bufL_, bufR_, threadVars>>

\* the mutant of push: a push that makes writePos_ meet readPos_ drops the
\* oldest element by advancing readPos_
Push_AdvanceRead ==
    /\ kind = "Simple"
    /\ nextVal <= MaxVal
    /\ LET pos == writePos_
       IN  /\ buf_' = [buf_ EXCEPT ![pos] = nextVal]
           /\ writePos_' = mask(pos + 1)
           /\ readPos_' = IF mask(pos + 1) = readPos_ THEN mask(readPos_ + 1)
                          ELSE readPos_
    /\ nextVal' = nextVal + 1
    /\ Hist("push", <<nextVal>>, <<>>, <<>>, <<>>)
    /\ RunPush(nextVal)
    /\ UNCHANGED <<cfgVars, subscribed_, bufL_, bufR_, threadVars>>

\* the mutant of push: without a subscriber the element is not stored
Push_OnlyWhenSubscribed ==
    /\ kind = "Simple"
    /\ nextVal <= MaxVal
    /\ LET pos == writePos_
       IN  /\ buf_' = IF subscribed_ THEN [buf_ EXCEPT ![pos] = nextVal] ELSE buf_
           /\ writePos_' = IF subscribed_ THEN mask(pos + 1) ELSE pos
    /\ nextVal' = nextVal + 1
    /\ Hist("push", <<nextVal>>, <<>>, <<>>, <<>>)
    /\ RunPush(nextVal)
    /\ UNCHANGED <<cfgVars, subscribed_, readPos_, bufL_, bufR_, threadVars>>

Push ==
    /\ kind = "Simple"
    /\ nextVal <= MaxVal
    /\ LET pos == writePos_
       IN  /\ buf_' = [buf_ EXCEPT ![pos] = nextVal]
           /\ writePos_' = mask(pos + 1)
    /\ nextVal' = nextVal + 1
    /\ Hist("push", <<nextVal>>, <<>>, <<>>, <<>>)
    /\ RunPush(nextVal)
    /\ UNCHANGED <<cfgVars, subscribed_, readPos_, bufL_, bufR_, threadVars>>

\* push(const std::vector<T> &v), which calls push(v.data(), v.size())
PushVector ==
    /\ kind = "Simple"
    /\ \E len \in 0..MaxLen :
        /\ nextVal + len - 1 <= MaxVal
        /\ LET v == Units(nextVal, len)
               r == pushArray(buf_, writePos_, v, Len(v))
           IN  /\ buf_' = r.buf
               /\ writePos_' = r.writePos
               /\ Hist("pushv", v, <<>>, <<>>, <<>>)
        /\ nextVal' = nextVal + len
    /\ RunBreak
    /\ UNCHANGED <<cfgVars, subscribed_, readPos_, bufL_, bufR_, threadVars>>

Pop ==
    /\ kind = "Simple"
    /\ LET r == pop(buf_, readPos_, writePos_)
       IN  /\ buf_' = r.buf
           /\ readPos_' = r.readPos
           /\ Hist("pop", <<>>, <<>>, IF r.has THEN <<r.item>> ELSE <<>>, <<>>)
    /\ RunConsume(readPos_', writePos_)
    /\ UNCHANGED <<cfgVars, subscribed_, writePos_, bufL_, bufR_, nextVal, threadVars>>

PopAll ==
    /\ kind = "Simple"
    /\ LET r == popall(buf_, readPos_, writePos_)
       IN  /\ buf_' = r.buf
           /\ readPos_' = r.readPos
           /\ Hist("popall", <<>>, <<>>, r.v, <<>>)
           /\ RunDrain(r.readPos, writePos_, r.v)
    /\ UNCHANGED <<cfgVars, subscribed_, writePos_, bufL_, bufR_, nextVal, threadVars>>

----------------------------------------------------------------------------
(* StereoRingBuffer: operations called from one thread. *)

\* the mutant of the stereo push: a push that makes writePos_ meet readPos_
\* drops the oldest frame by advancing readPos_
StereoPush_AdvanceRead ==
    /\ kind = "Stereo"
    /\ nextVal <= MaxVal
    /\ LET pos == writePos_
       IN  /\ bufL_' = [bufL_ EXCEPT ![pos] = nextVal]
           /\ bufR_' = [bufR_ EXCEPT ![pos] = -nextVal]
           /\ writePos_' = mask(pos + 1)
           /\ readPos_' = IF mask(pos + 1) = readPos_ THEN mask(readPos_ + 1)
                          ELSE readPos_
    /\ nextVal' = nextVal + 1
    /\ Hist("push", <<nextVal>>, <<-nextVal>>, <<>>, <<>>)
    /\ RunPush(nextVal)
    /\ UNCHANGED <<cfgVars, subscribed_, buf_, threadVars>>

\* push(T unitL, T unitR); push(std::pair<T, T>) forwards to it
StereoPush ==
    /\ kind = "Stereo"
    /\ nextVal <= MaxVal
    /\ LET pos == writePos_
       IN  /\ bufL_' = [bufL_ EXCEPT ![pos] = nextVal]
           /\ bufR_' = [bufR_ EXCEPT ![pos] = -nextVal]
           /\ writePos_' = mask(pos + 1)
    /\ nextVal' = nextVal + 1
    /\ Hist("push", <<nextVal>>, <<-nextVal>>, <<>>, <<>>)
    /\ RunPush(nextVal)
    /\ UNCHANGED <<cfgVars, subscribed_, readPos_, buf_, threadVars>>

\* the mutant of the stereo bulk push: the shorter vector is padded with
\* default elements to the length of the longer one
StereoPushVectors_PadsShorter ==
    /\ kind = "Stereo"
    /\ \E lenL \in 0..MaxLen, lenR \in 0..MaxLen :
        /\ lenL - lenR <= MaxSkew
        /\ lenR - lenL <= MaxSkew
        /\ nextVal + Max(lenL, lenR) - 1 <= MaxVal
        /\ LET vL == Units(nextVal, lenL)
               vR == Negated(Units(nextVal, lenR))
               n  == Max(Len(vL), Len(vR))
               Padded(s) == [i \in 1..n |-> IF i <= Len(s) THEN s[i] ELSE 0]
               r  == stereoPushArray(bufL_, bufR_, writePos_, Padded(vL),
                                     Padded(vR), n)
           IN  /\ bufL_' = r.bufL
               /\ bufR_' = r.bufR
               /\ writePos_' = r.writePos
               /\ Hist("pushv", vL, vR, <<>>, <<>>)
        /\ nextVal' = nextVal + Max(lenL, lenR)
    /\ RunBreak
    /\ UNCHANGED <<cfgVars, subscribed_, readPos_, buf_, threadVars>>

\* push(const std::vector<T> &vL, const std::vector<T> &vR)
StereoPushVectors ==
    /\ kind = "Stereo"
    /\ \E lenL \in 0..MaxLen, lenR \in 0..MaxLen :
        /\ lenL - lenR <= MaxSkew
        /\ lenR - lenL <= MaxSkew
        /\ nextVal + Max(lenL, lenR) - 1 <= MaxVal
        /\ LET vL == Units(nextVal, lenL)
               vR == Negated(Units(nextVal, lenR))
               r  == stereoPushArray(bufL_, bufR_, writePos_, vL, vR,
                                     Min(Len(vL), Len(vR)))
           IN  /\ bufL_' = r.bufL
               /\ bufR_' = r.bufR
               /\ writePos_' = r.writePos
               /\ Hist("pushv", vL, vR, <<>>, <<>>)
        /\ nextVal' = nextVal + Max(lenL, lenR)
    /\ RunBreak
    /\ UNCHANGED <<cfgVars, subscribed_, readPos_, buf_, threadVars>>

StereoPop ==
    /\ kind = "Stereo"
    /\ LET r == stereoPop(bufL_, bufR_, readPos_, writePos_)
       IN  /\ bufL_' = r.bufL
           /\ bufR_' = r.bufR
           /\ readPos_' = r.readPos
           /\ Hist("pop", <<>>, <<>>, IF r.has THEN <<r.itemL>> ELSE <<>>,
                   IF r.has THEN <<r.itemR>> ELSE <<>>)
    /\ RunConsume(readPos_', writePos_)
    /\ UNCHANGED <<cfgVars, subscribed_, writePos_, buf_, nextVal, threadVars>>

StereoPopAll ==
    /\ kind = "Stereo"
    /\ LET r == stereoPopall(bufL_, bufR_, readPos_, writePos_)
       IN  /\ bufL_' = r.bufL
           /\ bufR_' = r.bufR
           /\ readPos_' = r.readPos
           /\ Hist("popall", <<>>, <<>>, r.vL, r.vR)
    /\ RunConsume(readPos_', writePos_)
    /\ UNCHANGED <<cfgVars, subscribed_, writePos_, buf_, nextVal, threadVars>>

Next ==
    \/ Clear
    \/ Subscribe
    \/ Unsubscribe
    \/ Empty
    \/ Size
    \/ Push
    \/ PushVector
    \/ Pop
    \/ PopAll
    \/ StereoPush
    \/ StereoPushVectors
    \/ StereoPop
    \/ StereoPopAll

Spec == Init /\ [][Next]_vars

----------------------------------------------------------------------------
(* One producer thread calling push and one consumer thread calling pop,   *)
(* each call split into its loads and stores.  With memory_order_relaxed   *)
(* (the default) nothing orders the store to writePos_ after the plain     *)
(* stores into the arrays, so the consumer may see them in any order; with *)
(* memory_order_seq_cst the store to writePos_ is a release and becomes    *)
(* visible after them.  The two plain stores of a stereo push are not      *)
(* ordered with each other.                                                *)

InitThreads ==
    /\ InitBuffer
    /\ MemoryOrder \in {"relaxed", "seq_cst"}
    /\ LRUUnused
    /\ ActiveSetUnused
    /\ AllocatorUnused
    /\ EraseUnused

\* the producer calls push(unit) / push(unitL, unitR)
P_Call ==
    /\ pcP = "idle"
    /\ nextVal <= MaxVal
    /\ pUnit' = nextVal
    /\ nextVal' = nextVal + 1
    /\ overrun' = (overrun \/ nextVal - Len(popped) > N - 1)
    /\ pcP' = "load"
    /\ overlapped' = (overlapped \/ pcC # "idle")
    /\ raced' = (raced \/ pcC = "move")
    /\ UNCHANGED <<pUnits, pCount, pOff, pIdx, cV, cCount, cIdx, lapped>>
    /\ UNCHANGED <<cfgVars, posVars, bufVars, histVars, pPos, pPending, pcC,
                   cItemL, cItemR, popped>>

\* std::size_t pos = this->writePos_.load(MemoryOrder);
P_Load ==
    /\ pcP = "load"
    /\ pPos' = writePos_
    /\ pPending' = IF kind = "Simple" THEN {"buf", "writePos"}
                   ELSE {"bufL", "bufR", "writePos"}
    /\ pcP' = "store"
    /\ UNCHANGED <<bulkVars, cfgVars, posVars, bufVars, nextVal, histVars, pUnit, pcC,
                   cItemL, cItemR, popped, overrun,
                   overlapped>>

\* the mutant of MoveIndex: the elements before the end of the array are moved
\* out last to first
MoveIndex_Backwards(rp, sz1, i) == IF i < sz1 THEN rp + sz1 - 1 - i ELSE i - sz1

\* popall: the index of the i-th element (from 0) that the two std::move calls
\* move out, where sz1 elements lie before the end of the array
MoveIndex(rp, sz1, i) == IF i < sz1 THEN rp + i ELSE i - sz1

\* the slots the popall in progress has counted and not yet moved out
ToBeMoved ==
    IF pcC = "move"
    THEN {MoveIndex(readPos_, prepareToRead(readPos_, cCount)[1], i) :
              i \in cIdx..(cCount - 1)}
    ELSE {}

\* the producer is done with push once all its stores are visible
P_Done(pending) == IF pending = {} THEN "idle" ELSE "store"

\* buf_[pos] = std::move(unit);
P_WriteBuf ==
    /\ pcP = "store"
    /\ "buf" \in pPending
    /\ buf_' = [buf_ EXCEPT ![pPos] = pUnit]
    /\ pPending' = pPending \ {"buf"}
    /\ pcP' = P_Done(pPending')
    /\ lapped' = (lapped \/ pPos \in ToBeMoved)
    /\ UNCHANGED <<pUnits, pCount, pOff, pIdx, cV, cCount, cIdx, raced>>
    /\ UNCHANGED <<cfgVars, posVars, bufL_, bufR_, nextVal, histVars, pPos, pUnit,
                   pcC, cItemL, cItemR, popped, overrun,
                   overlapped>>

\* bufL_[pos] = std::move(unitL);
P_WriteL ==
    /\ pcP = "store"
    /\ "bufL" \in pPending
    /\ bufL_' = [bufL_ EXCEPT ![pPos] = pUnit]
    /\ pPending' = pPending \ {"bufL"}
    /\ pcP' = P_Done(pPending')
    /\ UNCHANGED <<bulkVars, cfgVars, posVars, buf_, bufR_, nextVal, histVars, pPos, pUnit,
                   pcC, cItemL, cItemR, popped, overrun,
                   overlapped>>

\* bufR_[pos] = std::move(unitR);
P_WriteR ==
    /\ pcP = "store"
    /\ "bufR" \in pPending
    /\ bufR_' = [bufR_ EXCEPT ![pPos] = -pUnit]
    /\ pPending' = pPending \ {"bufR"}
    /\ pcP' = P_Done(pPending')
    /\ UNCHANGED <<bulkVars, cfgVars, posVars, buf_, bufL_, nextVal, histVars, pPos, pUnit,
                   pcC, cItemL, cItemR, popped, overrun,
                   overlapped>>

\* the mutant of the store to writePos_: it is never ordered after the stores
\* into the arrays, whatever MemoryOrder is
StoreVisible_Unordered(pending) == "writePos" \in pending

\* the mutant of the store to writePos_: it waits until the new write
\* position is not the consumer's read position
StoreVisible_WaitsForReader(pending) ==
    /\ "writePos" \in pending
    /\ (MemoryOrder = "relaxed" \/ pending = {"writePos"})
    /\ mask(pPos + 1) # readPos_

\* whether the store to writePos_ may become visible now
StoreVisible(pending) ==
    /\ "writePos" \in pending
    /\ (MemoryOrder = "relaxed" \/ pending = {"writePos"})

\* this->writePos_.store(this->mask(pos + 1), MemoryOrder);
P_Store ==
    /\ pcP = "store"
    /\ StoreVisible(pPending)
    /\ writePos_' = mask(pPos + 1)
    /\ pPending' = pPending \ {"writePos"}
    /\ pcP' = P_Done(pPending')
    /\ UNCHANGED <<bulkVars, cfgVars, subscribed_, readPos_, bufVars, nextVal, histVars, pPos,
                   pUnit, pcC, cItemL, cItemR, popped, overrun,
                   overlapped>>

\* the consumer calls pop(): if (this->readPos_ != this->writePos_.load(MemoryOrder))
C_Load ==
    /\ pcC = "idle"
    /\ pcC' = IF readPos_ # writePos_ THEN "read" ELSE "none"
    /\ overlapped' = (overlapped \/ pcP # "idle")
    /\ UNCHANGED <<bulkVars, cfgVars, posVars, bufVars, nextVal, histVars, pcP, pPos, pUnit,
                   pPending, cItemL, cItemR, popped, overrun>>

\* return std::nullopt;
C_ReturnNone ==
    /\ pcC = "none"
    /\ pcC' = "idle"
    /\ UNCHANGED <<bulkVars, cfgVars, posVars, bufVars, nextVal, histVars, pcP, pPos, pUnit,
                   pPending, cItemL, cItemR, popped, overrun,
                   overlapped>>

\* T item = std::move(buf_[this->readPos_]);
C_Read ==
    /\ pcC = "read"
    /\ kind = "Simple"
    /\ cItemL' = buf_[readPos_]
    /\ buf_' = [buf_ EXCEPT ![readPos_] = MovedFrom(buf_[readPos_])]
    /\ pcC' = "advance"
    /\ UNCHANGED <<bulkVars, cfgVars, posVars, bufL_, bufR_, nextVal, histVars, pcP, pPos,
                   pUnit, pPending, cItemR, popped, overrun,
                   overlapped>>

\* std::pair<T, T> item{std::move(bufL_[pos]), ...
C_ReadL ==
    /\ pcC = "read"
    /\ kind = "Stereo"
    /\ cItemL' = bufL_[readPos_]
    /\ bufL_' = [bufL_ EXCEPT ![readPos_] = MovedFrom(bufL_[readPos_])]
    /\ pcC' = "readR"
    /\ UNCHANGED <<bulkVars, cfgVars, posVars, buf_, bufR_, nextVal, histVars, pcP, pPos,
                   pUnit, pPending, cItemR, popped, overrun,
                   overlapped>>

\* the mutant of the read of the right channel: it reads the next index
C_ReadR_NextIndex ==
    /\ pcC = "readR"
    /\ cItemR' = bufR_[mask(readPos_ + 1)]
    /\ pcC' = "advance"
    /\ UNCHANGED <<bulkVars, cfgVars, posVars, bufVars, nextVal, histVars, pcP, pPos,
                   pUnit, pPending, cItemL, popped, overrun, overlapped>>

\* ... std::move(bufR_[pos])};
C_ReadR ==
    /\ pcC = "readR"
    /\ cItemR' = bufR_[readPos_]
    /\ bufR_' = [bufR_ EXCEPT ![readPos_] = MovedFrom(bufR_[readPos_])]
    /\ pcC' = "advance"
    /\ UNCHANGED <<bulkVars, cfgVars, posVars, buf_, bufL_, nextVal, histVars, pcP, pPos,
                   pUnit, pPending, cItemL, popped, overrun,
                   overlapped>>

\* this->readPos_ = this->mask(this->readPos_ + 1); return item;
C_Advance ==
    /\ pcC = "advance"
    /\ readPos_' = mask(readPos_ + 1)
    /\ popped' = Append(popped, IF kind = "Simple" THEN cItemL
                                ELSE <<cItemL, cItemR>>)
    /\ pcC' = "idle"
    /\ UNCHANGED <<bulkVars, cfgVars, subscribed_, writePos_, bufVars, nextVal, histVars, pcP,
                   pPos, pUnit, pPending, cItemL, cItemR, overrun,
                   overlapped>>

NextThreads ==
    \/ P_Call
    \/ P_Load
    \/ P_WriteBuf
    \/ P_WriteL
    \/ P_WriteR
    \/ P_Store
    \/ C_Load
    \/ C_ReturnNone
    \/ C_Read
    \/ C_ReadL
    \/ C_ReadR
    \/ C_Advance

SpecThreads == InitThreads /\ [][NextThreads]_vars

----------------------------------------------------------------------------
(* SimpleRingBuffer: the producer thread calling push or the bulk push and  *)
(* the consumer thread calling pop or popall, each element copied or moved  *)
(* in a step of its own.                                                   *)

InitBulkThreads ==
    /\ InitBuffer
    /\ kind = "Simple"
    /\ MemoryOrder \in {"relaxed", "seq_cst"}
    /\ LRUUnused
    /\ ActiveSetUnused
    /\ AllocatorUnused
    /\ EraseUnused

\* the producer calls push(const T *units, std::size_t sz)
PB_Call ==
    /\ pcP = "idle"
    /\ \E len \in 0..MaxLen :
        /\ nextVal + len - 1 <= MaxVal
        /\ pUnits' = Units(nextVal, len)
        /\ pCount' = len
        /\ nextVal' = nextVal + len
        /\ overrun' = (overrun \/ nextVal + len - 1 - Len(popped) > N - 1)
    /\ pOff' = 0
    /\ pIdx' = 0
    /\ pcP' = "reduce"
    /\ overlapped' = (overlapped \/ pcC # "idle")
    /\ raced' = (raced \/ pcC = "move")
    /\ UNCHANGED <<cfgVars, posVars, bufVars, histVars, pPos, pUnit, pPending, pcC,
                   cItemL, cItemR, popped, cV, cCount, cIdx, lapped>>

\* while (sz > N) { sz -= N; units += N; }
PB_Reduce ==
    /\ pcP = "reduce"
    /\ pCount > N
    /\ pCount' = pCount - N
    /\ pOff' = pOff + N
    /\ UNCHANGED <<cfgVars, posVars, bufVars, nextVal, histVars, pcP, pPos, pUnit,
                   pPending, pcC, cItemL, cItemR, popped, overrun, overlapped,
                   pUnits, pIdx, cV, cCount, cIdx, lapped, raced>>

\* std::tie(pos, sz1, sz2) = this->prepareToWrite(sz);
PB_Prepare ==
    /\ pcP = "reduce"
    /\ ~(pCount > N)
    /\ pPos' = prepareToWrite(writePos_, pCount)[1]
    /\ pPending' = IF pCount = 0 THEN {"writePos"} ELSE {"buf", "writePos"}
    /\ pcP' = "copy"
    /\ UNCHANGED <<cfgVars, posVars, bufVars, nextVal, histVars, pUnit, pcC, cItemL,
                   cItemR, popped, overrun, overlapped, pUnits, pCount, pOff, pIdx,
                   cV, cCount, cIdx, lapped, raced>>

\* the bulk push returns once all its stores are visible, and its locals are
\* gone; idx is the number of elements stored so far
PB_Return(pending, idx) ==
    /\ pcP' = IF pending = {} THEN "idle" ELSE "copy"
    /\ pIdx' = IF pending = {} THEN 0 ELSE idx
    /\ pUnits' = IF pending = {} THEN <<>> ELSE pUnits
    /\ pCount' = IF pending = {} THEN 0 ELSE pCount
    /\ pOff' = IF pending = {} THEN 0 ELSE pOff

\* the two std::copy calls: the index at which the i-th element (from 0) of
\* the reduced array is stored
CopyIndex(pos, sz1, i) == IF i < sz1 THEN pos + i ELSE mask(pos + sz1) + (i - sz1)

\* one element of std::copy(&units[0], &units[sz1], &buf_[pos]) or of
\* std::copy(&units[sz1], &units[sz], &buf_[pos])
PB_Copy ==
    /\ pcP = "copy"
    /\ "buf" \in pPending
    /\ LET sz1 == prepareToWrite(pPos, pCount)[2]
           idx == CopyIndex(pPos, sz1, pIdx)
       IN  /\ buf_' = [buf_ EXCEPT ![idx] = pUnits[pOff + pIdx + 1]]
           /\ lapped' = (lapped \/ idx \in ToBeMoved)
    /\ pPending' = IF pIdx + 1 = pCount THEN pPending \ {"buf"} ELSE pPending
    /\ PB_Return(pPending', pIdx + 1)
    /\ UNCHANGED <<cfgVars, posVars, bufL_, bufR_, nextVal, histVars, pPos, pUnit,
                   pcC, cItemL, cItemR, popped, overrun, overlapped, cV, cCount,
                   cIdx, raced>>

\* pos = this->mask(pos + sz1); if (sz2) { ... pos = this->mask(pos + sz2); }
\* this->writePos_.store(pos, MemoryOrder);
PB_Store ==
    /\ pcP = "copy"
    /\ StoreVisible(pPending)
    /\ LET p    == prepareToWrite(pPos, pCount)
           pos1 == mask(pPos + p[2])
       IN  writePos_' = IF p[3] # 0 THEN mask(pos1 + p[3]) ELSE pos1
    /\ pPending' = pPending \ {"writePos"}
    /\ PB_Return(pPending', pIdx)
    /\ UNCHANGED <<cfgVars, subscribed_, readPos_, bufVars, nextVal, histVars, pPos,
                   pUnit, pcC, cItemL, cItemR, popped, overrun, overlapped,
                   cV, cCount, cIdx, lapped, raced>>

\* the consumer calls popall():
\* std::size_t sz = this->mask(this->writePos_.load(MemoryOrder) - this->readPos_);
CA_Load ==
    /\ pcC = "idle"
    /\ cCount' = maskBits(SizeSub(writePos_, readPos_))
    /\ cIdx' = 0
    /\ cV' = <<>>
    /\ lapped' = FALSE
    /\ raced' = (pcP # "idle")
    /\ pcC' = "move"
    /\ overlapped' = (overlapped \/ pcP # "idle")
    /\ UNCHANGED <<cfgVars, posVars, bufVars, nextVal, histVars, pcP, pPos, pUnit,
                   pPending, cItemL, cItemR, popped, overrun, pUnits, pCount, pOff,
                   pIdx>>

\* one element of it = std::move(b + readPos_, b + readPos_ + sz1, it) or of
\* std::move(b, b + sz2, it)
CA_Move ==
    /\ pcC = "move"
    /\ cIdx < cCount
    /\ LET sz1 == prepareToRead(readPos_, cCount)[1]
           idx == MoveIndex(readPos_, sz1, cIdx)
       IN  /\ cV' = Append(cV, buf_[idx])
           /\ buf_' = [buf_ EXCEPT ![idx] = MovedFrom(buf_[idx])]
    /\ cIdx' = cIdx + 1
    /\ UNCHANGED <<cfgVars, posVars, bufL_, bufR_, nextVal, histVars, pcP, pPos,
                   pUnit, pPending, pcC, cItemL, cItemR, popped, overrun, overlapped,
                   pUnits, pCount, pOff, pIdx, cCount, lapped, raced>>

\* this->readPos_ = this->mask(this->readPos_ + sz); return v;
CA_Advance ==
    /\ pcC = "move"
    /\ cIdx = cCount
    /\ readPos_' = mask(readPos_ + cCount)
    /\ popped' = popped \o cV
    /\ pcC' = "idle"
    /\ cCount' = 0
    /\ cIdx' = 0
    /\ UNCHANGED <<cfgVars, subscribed_, writePos_, bufVars, nextVal, histVars, pcP,
                   pPos, pUnit, pPending, cItemL, cItemR, overrun, overlapped,
                   pUnits, pCount, pOff, pIdx, cV, lapped, raced>>

ProducerStep ==
    \/ P_Load
    \/ P_WriteBuf
    \/ P_Store
    \/ PB_Reduce
    \/ PB_Prepare
    \/ PB_Copy
    \/ PB_Store

ConsumerStep ==
    \/ C_ReturnNone
    \/ C_Read
    \/ C_Advance
    \/ CA_Move
    \/ CA_Advance

NextBulkThreads ==
    \/ P_Call
    \/ PB_Call
    \/ C_Load
    \/ CA_Load
    \/ ProducerStep
    \/ ConsumerStep

SpecBulkThreads == InitBulkThreads /\ [][NextBulkThreads]_vars

----------------------------------------------------------------------------
(* SimpleRingBuffer: push, bulk push, pop and popall from one thread on a   *)
(* buffer that has been in use: the cursors are anywhere in [0, N) and the  *)
(* array holds elements pushed earlier, slot i the element MaxVal + 1 + i.  *)

\* the array of a buffer of n elements that has been in use
Used(n) == [i \in 0..(n - 1) |-> MaxVal + 1 + i]

InitUsedBuffer ==
    /\ N \in {2^k : k \in 0..MaxLogN}
    /\ IsPowerOfTwo(N)
    /\ kind = "Simple"
    /\ MemoryOrder = "relaxed"
    /\ subscribed_ = FALSE
    /\ writePos_ \in 0..(N - 1)
    /\ readPos_ \in 0..(N - 1)
    /\ buf_ = Used(N)
    /\ bufL_ = Default(N)
    /\ bufR_ = Default(N)
    /\ nextVal = 1
    /\ last = [op |-> "init", argL |-> <<>>, argR |-> <<>>, retL |-> <<>>, retR |-> <<>>]
    /\ pre = [op |-> "init", buf |-> buf_, bufL |-> Default(N), bufR |-> Default(N),
              writePos |-> writePos_, readPos |-> readPos_, subscribed |-> FALSE,
              run |-> <<>>, runOk |-> (readPos_ = writePos_)]
    /\ run = <<>>
    /\ runOk = (readPos_ = writePos_)
    /\ lost = {}
    /\ pcP = "idle"
    /\ pPos = 0
    /\ pUnit = 0
    /\ pPending = {}
    /\ pcC = "idle"
    /\ cItemL = 0
    /\ cItemR = 0
    /\ popped = <<>>
    /\ overrun = FALSE
    /\ overlapped = FALSE
    /\ pUnits = <<>>
    /\ pCount = 0
    /\ pOff = 0
    /\ pIdx = 0
    /\ cV = <<>>
    /\ cCount = 0
    /\ cIdx = 0
    /\ lapped = FALSE
    /\ raced = FALSE
    /\ LRUUnused
    /\ ActiveSetUnused
    /\ AllocatorUnused
    /\ EraseUnused

NextUsedBuffer ==
    \/ Push
    \/ PushVector
    \/ Pop
    \/ PopAll

SpecUsedBuffer == InitUsedBuffer /\ [][NextUsedBuffer]_vars

----------------------------------------------------------------------------
(* LRU: one thread calling get on a cache constructed with any maximum. *)

\* no ring buffer is in use
RingBufferUnused ==
    /\ InitBuffer
    /\ N = 1
    /\ kind = "Simple"
    /\ MemoryOrder = "relaxed"

InitLRU ==
    /\ RingBufferUnused
    /\ ActiveSetUnused
    /\ AllocatorUnused
    /\ EraseUnused
    /\ \E maximum \in 0..MaxMaximum, lk \in {"lock_guard", "mutex", "lock_free"} :
          LRUConstructed(maximum, lk)

SpecLRU == InitLRU /\ [][NextLRU]_vars

----------------------------------------------------------------------------
(* active_set_overlay: one overlay over a pool of MaxThings objects. *)

InitActiveSet ==
    /\ RingBufferUnused
    /\ LRUUnused
    /\ AllocatorUnused
    /\ EraseUnused
    /\ OverlayConstructed(MaxThings)

SpecActiveSet == InitActiveSet /\ [][NextActiveSet]_vars

----------------------------------------------------------------------------
(* fixed_memory_allocator: allocator objects constructed, assigned and      *)
(* destroyed, no allocation made.                                           *)

InitAllocators ==
    /\ RingBufferUnused
    /\ LRUUnused
    /\ ActiveSetUnused
    /\ EraseUnused
    /\ \E nd \in BOOLEAN : AllocatorConfigured(MaxBytes, 1, nd)

SpecAllocators == InitAllocators /\ [][NextAllocators]_vars

----------------------------------------------------------------------------
(* fixed_memory_allocator: allocate and deallocate on the block of one      *)
(* allocator.                                                               *)

\* the values of sizeof(T)
SizesOfT == {1, 2, 4}

\* alloc_t alloc(true);
InitAllocate ==
    /\ RingBufferUnused
    /\ LRUUnused
    /\ ActiveSetUnused
    /\ EraseUnused
    /\ \E n \in 1..MaxBytes, sot \in SizesOfT, nd \in BOOLEAN :
          /\ blockN = n
          /\ sizeofT = sot
          /\ ndebug = nd
          /\ objects = [a \in Allocators |->
                          IF a = 1
                          THEN [alive |-> TRUE, data_ |-> 1, used_ |-> 1,
                                refCount_ |-> 1, dataOwner_ |-> TRUE]
                          ELSE NoObject]
          /\ heap = <<NewBlock(n)>>
          /\ faLive = {}
          /\ faStatus = "ok"
          /\ faLast = [op |-> "construct", obj |-> 1, other |-> 0, args |-> <<>>,
                       outcome |-> "returned", ret |-> <<>>, valid |-> TRUE,
                       beyond |-> FALSE]
          /\ faPre = [objects |-> [a \in Allocators |-> NoObject], heap |-> <<>>,
                      live |-> {}, op |-> "init", made |-> <<>>, before |-> <<>>]

SpecAllocate == InitAllocate /\ [][NextAllocate]_vars

----------------------------------------------------------------------------
(* nodal_erase_if: one call, on any container of up to MaxSize elements     *)
(* with any predicate.                                                      *)

\* the sequences of at most n elements of s
SeqUpTo(s, n) == UNION {[1..k -> s] : k \in 0..n}

InitErase ==
    /\ RingBufferUnused
    /\ LRUUnused
    /\ ActiveSetUnused
    /\ AllocatorUnused
    /\ \E c \in SeqUpTo(1..MaxElement, MaxSize), q \in SUBSET (1..MaxElement) :
          EraseCalled(c, q)

SpecErase == InitErase /\ [][NextErase]_vars

----------------------------------------------------------------------------
(* Properties of the operations called from one thread (Spec). *)

\* the last r elements of s
Final(s, r) == SubSeq(s, Len(s) - r + 1, Len(s))

\* the array after the elements of s (at most N) were stored from index wp on,
\* wrapping at the end
Stored(b, wp, s) ==
    [i \in 0..(N - 1) |->
        LET d == (i - wp) % N IN IF d < Len(s) THEN s[d + 1] ELSE b[i]]

\* the buffer is in the state the bulk push of the last r elements of the
\* vector, from the state before the last operation, leaves
SameAsPushingFinal(r) ==
    LET s == Final(last.argL, r)
        e == pushArray(pre.buf, pre.writePos, s, r)
    IN  /\ buf_ = Stored(pre.buf, pre.writePos, s)
        /\ writePos_ = (pre.writePos + r) % N
        /\ readPos_ = pre.readPos
        /\ buf_ = e.buf
        /\ writePos_ = e.writePos

\* C2 as stated: k <= N single pushes into an empty buffer, then popall()
\* returns the k elements in push order.
C2_PopallReturnsUpToN ==
    (kind = "Simple" /\ last.op = "popall" /\ pre.runOk /\ Len(pre.run) <= N)
        => last.retL = pre.run

\* C2 amended: k <= N - 1 single pushes into an empty SimpleRingBuffer with no
\* pop between them, then popall() returns exactly the k elements in push order.
C2_PopallReturnsUpToNMinus1 ==
    (kind = "Simple" /\ last.op = "popall" /\ pre.runOk /\ Len(pre.run) <= N - 1)
        => last.retL = pre.run

\* popall() returned N - 1 elements that lay across the end of the array
C2_Witness ==
    /\ kind = "Simple" /\ N = 4
    /\ last.op = "popall" /\ pre.runOk /\ Len(pre.run) = N - 1
    /\ pre.readPos = 2
    /\ last.retL = pre.run

\* C3: from an empty SimpleRingBuffer, after exactly N single pushes and no pop
\* writePos is back at readPos: empty() is true, pop() returns no value and
\* popall() returns an empty sequence, although the N items are in the array.
C3_FullWrapLooksEmpty ==
    /\ (kind = "Simple" /\ runOk /\ Len(run) = N) =>
          /\ writePos_ = readPos_
          /\ empty
          /\ ~pop(buf_, readPos_, writePos_).has
          /\ popall(buf_, readPos_, writePos_).v = <<>>
          /\ \A i \in 1..N : buf_[(readPos_ + i - 1) % N] = run[i]
    /\ (kind = "Simple" /\ last.op \in {"pop", "popall"}
            /\ pre.runOk /\ Len(pre.run) = N) =>
          /\ last.retL = <<>>
          /\ readPos_ = pre.readPos

\* pop() was called after N pushes into a buffer that was empty at index 1
C3_Witness ==
    /\ kind = "Simple" /\ N = 4
    /\ last.op = "pop" /\ pre.runOk /\ Len(pre.run) = N
    /\ pre.readPos = 1
    /\ last.retL = <<>>

\* C4 as stated: from an empty SimpleRingBuffer, N + 1 single pushes and then
\* pop() yield the most recently pushed item, and the next pop() no value.
C4_PopAfterNPlus1 ==
    (kind = "Simple" /\ last.op = "pop" /\ pre.runOk /\ Len(pre.run) = N + 1) =>
        /\ last.retL = <<pre.run[N + 1]>>
        /\ ~pop(buf_, readPos_, writePos_).has

\* C4 amended: the same for N >= 2 (with N = 1 the cursors never move and
\* every pop() returns no value).
C4_PopAfterNPlus1_NAtLeast2 ==
    (kind = "Simple" /\ N >= 2 /\ last.op = "pop" /\ pre.runOk
            /\ Len(pre.run) = N + 1) =>
        /\ last.retL = <<pre.run[N + 1]>>
        /\ ~pop(buf_, readPos_, writePos_).has
        /\ empty

\* pop() returned the fifth of five pushes into a buffer of 4
C4_Witness ==
    /\ kind = "Simple" /\ N = 4
    /\ last.op = "pop" /\ pre.runOk /\ Len(pre.run) = N + 1
    /\ last.retL = <<pre.run[N + 1]>>

\* C5 as stated: a bulk push of len > N elements leaves the buffer as the bulk
\* push of the final (len mod N) elements does, also when len mod N = 0.
C5_BulkPushFinalLenModN ==
    (kind = "Simple" /\ last.op = "pushv" /\ Len(last.argL) > N) =>
        SameAsPushingFinal(Len(last.argL) % N)

\* C5 amended: a bulk push of len > N elements leaves the buffer (storage,
\* writePos, readPos) as the bulk push of the final r elements does, where r is
\* len mod N if that is not 0, and N if len is a multiple of N.
C5_BulkPushFinalReduced ==
    (kind = "Simple" /\ last.op = "pushv" /\ Len(last.argL) > N) =>
        SameAsPushingFinal(IF Len(last.argL) % N = 0 THEN N
                           ELSE Len(last.argL) % N)

\* a bulk push of 2N elements into a buffer with an unread element
C5_Witness ==
    /\ kind = "Simple" /\ N = 2
    /\ last.op = "pushv" /\ Len(last.argL) = 2 * N
    /\ pre.readPos # pre.writePos
    /\ buf_ # pre.buf

\* C7: writePos and readPos are in [0, N) in every state of SimpleRingBuffer
\* and of StereoRingBuffer, after any push, bulk push, pop, popall and clear.
C7_CursorsInRange ==
    /\ writePos_ \in 0..(N - 1)
    /\ readPos_ \in 0..(N - 1)

\* a stereo bulk push carried writePos over the end of the array
C7_Witness ==
    /\ kind = "Stereo" /\ N = 4
    /\ last.op = "pushv"
    /\ pre.writePos = 3 /\ writePos_ = 1

\* C8: single-element push is enabled in every state; it stores the item at
\* storage[writePos], sets writePos to (writePos + 1) mod N and leaves readPos,
\* the subscribed flag and every other slot unchanged.
C8_PushEffect ==
    /\ (kind = "Simple" /\ nextVal <= MaxVal) => ENABLED Push
    /\ (kind = "Simple" /\ last.op = "push") =>
          /\ buf_ = [pre.buf EXCEPT ![pre.writePos] = last.argL[1]]
          /\ writePos_ = (pre.writePos + 1) % N
          /\ readPos_ = pre.readPos
          /\ subscribed_ = pre.subscribed

\* push into a subscribed buffer that held N - 1 unread elements
C8_Witness ==
    /\ kind = "Simple" /\ N = 4
    /\ last.op = "push"
    /\ (pre.writePos - pre.readPos) % N = N - 1
    /\ pre.subscribed
    /\ writePos_ = readPos_

\* C9: pop() returns no value exactly when readPos = writePos (so on a fresh or
\* freshly cleared buffer) and then changes nothing; otherwise it returns
\* storage[readPos], advances readPos by one modulo N and leaves writePos.
C9_PopEffect ==
    (kind = "Simple" /\ last.op = "pop") =>
        /\ IF pre.readPos = pre.writePos
           THEN /\ last.retL = <<>>
                /\ buf_ = pre.buf
                /\ readPos_ = pre.readPos
                /\ writePos_ = pre.writePos
                /\ subscribed_ = pre.subscribed
           ELSE /\ last.retL = <<pre.buf[pre.readPos]>>
                /\ readPos_ = (pre.readPos + 1) % N
                /\ writePos_ = pre.writePos
        /\ pre.op \in {"init", "clear"} => last.retL = <<>>

\* pop() on a buffer that was cleared while it held unread elements
C9_Witness ==
    /\ kind = "Simple" /\ N = 4
    /\ last.op = "pop" /\ pre.op = "clear"
    /\ pre.buf[0] # 0 /\ pre.buf[1] # 0
    /\ last.retL = <<>>

\* C10: called from the consumer with no push in between, popall() returns
\* size() elements, from storage[readPos] on in index order modulo N, advances
\* readPos by that count and leaves the buffer empty.
C10_PopallEffect ==
    (kind = "Simple" /\ last.op = "popall") =>
        LET n == (pre.writePos - pre.readPos) % N
        IN  /\ Len(last.retL) = n
            /\ \A i \in 1..n : last.retL[i] = pre.buf[(pre.readPos + i - 1) % N]
            /\ readPos_ = (pre.readPos + n) % N
            /\ writePos_ = pre.writePos
            /\ empty
            /\ size = 0
            /\ popall(buf_, readPos_, writePos_).v = <<>>
            /\ ~pop(buf_, readPos_, writePos_).has

\* popall() returned three elements that lay across the end of the array
C10_Witness ==
    /\ kind = "Simple" /\ N = 4
    /\ last.op = "popall"
    /\ pre.readPos = 2 /\ pre.writePos = 1
    /\ Len(last.retL) = 3

\* C11: for all cursor values in [0, N), size() is (writePos - readPos) mod N,
\* also when writePos < readPos and the unsigned subtraction wraps modulo 2^64;
\* empty() is true exactly when readPos = writePos; empty() holds iff size() = 0.
\* The arithmetic of size() is checked for every pair of cursors in [0, N) as
\* well, once for each N, in the state after construction.
C11_SizeIsDistanceModN ==
    /\ size = (writePos_ - readPos_) % N
    /\ last.op = "init" =>
          \A wp, rp \in 0..(N - 1) :
              /\ maskBits(SizeSub(wp, rp)) = (wp - rp) % N
              /\ (maskBits(SizeSub(wp, rp)) = 0) <=> (rp = wp)
    /\ empty <=> (readPos_ = writePos_)
    /\ empty <=> (size = 0)
    /\ last.op = "size" =>
          /\ last.retL = <<(pre.writePos - pre.readPos) % N>>
          /\ (last.retL = <<0>>) <=> (pre.readPos = pre.writePos)
    /\ last.op = "empty" => last.retL = <<pre.readPos = pre.writePos>>

\* size() returned 1 with writePos at 0 and readPos at N - 1
C11_Witness ==
    /\ N = 4
    /\ last.op = "size"
    /\ pre.writePos = 0 /\ pre.readPos = N - 1
    /\ SizeSub(pre.writePos, pre.readPos)[NumLimbs] = LimbBase - 1
    /\ last.retL = <<1>>

\* C12: clear() sets readPos and writePos to 0 from any state, the buffer is
\* empty afterwards, and the subscribed flag is as it was before.
C12_ClearEffect ==
    last.op = "clear" =>
        /\ readPos_ = 0
        /\ writePos_ = 0
        /\ empty
        /\ size = 0
        /\ subscribed_ = pre.subscribed
        /\ IF kind = "Simple"
           THEN /\ ~pop(buf_, readPos_, writePos_).has
                /\ popall(buf_, readPos_, writePos_).v = <<>>
           ELSE /\ ~stereoPop(bufL_, bufR_, readPos_, writePos_).has
                /\ stereoPopall(bufL_, bufR_, readPos_, writePos_).vL = <<>>

\* clear() of a subscribed buffer with unread elements and both cursors off 0
C12_Witness ==
    /\ last.op = "clear"
    /\ pre.subscribed /\ subscribed_
    /\ pre.readPos # 0 /\ pre.writePos # 0
    /\ pre.readPos # pre.writePos

\* C13: the subscribed flag is false on construction, true after subscribe()
\* and false after unsubscribe(); push, bulk push, pop, popall and clear leave
\* it as it is; and what a push or a pop does to the array, the cursors and its
\* result is determined by the array and the cursors alone, not by the flag.
C13_SubscribedFlag ==
    /\ last.op = "init" => ~subscribed_
    /\ last.op = "subscribe" => subscribed_
    /\ last.op = "unsubscribe" => ~subscribed_
    /\ last.op \in {"push", "pushv", "pop", "popall", "clear", "empty", "size"} =>
          subscribed_ = pre.subscribed
    /\ last.op = "push" =>
          /\ writePos_ = (pre.writePos + 1) % N
          /\ readPos_ = pre.readPos
          /\ kind = "Simple" => buf_ = [pre.buf EXCEPT ![pre.writePos] = last.argL[1]]
          /\ kind = "Stereo" =>
                /\ bufL_ = [pre.bufL EXCEPT ![pre.writePos] = last.argL[1]]
                /\ bufR_ = [pre.bufR EXCEPT ![pre.writePos] = last.argR[1]]
    /\ last.op = "pop" =>
          /\ writePos_ = pre.writePos
          /\ readPos_ = IF pre.readPos = pre.writePos THEN pre.readPos
                        ELSE (pre.readPos + 1) % N
          /\ kind = "Simple" =>
                last.retL = IF pre.readPos = pre.writePos THEN <<>>
                            ELSE <<pre.buf[pre.readPos]>>
          /\ kind = "Stereo" =>
                /\ last.retL = IF pre.readPos = pre.writePos THEN <<>>
                               ELSE <<pre.bufL[pre.readPos]>>
                /\ last.retR = IF pre.readPos = pre.writePos THEN <<>>
                               ELSE <<pre.bufR[pre.readPos]>>

\* a pop that returned an element from a buffer subscribed after the pushes
C13_Witness ==
    /\ last.op = "pop" /\ pre.op = "subscribe"
    /\ pre.subscribed /\ subscribed_
    /\ Len(last.retL) = 1

\* C16: no producer operation (push, bulk push, of SimpleRingBuffer and of
\* StereoRingBuffer) changes readPos, no consumer operation (pop, popall, empty,
\* size) changes writePos, and clear() is the only operation after which both
\* cursors can differ from what they were.
C16_CursorOwnership ==
    /\ last.op \in {"push", "pushv"} => readPos_ = pre.readPos
    /\ last.op \in {"pop", "popall", "empty", "size"} => writePos_ = pre.writePos
    /\ last.op \in {"empty", "size", "subscribe", "unsubscribe"} =>
          /\ readPos_ = pre.readPos
          /\ writePos_ = pre.writePos
    /\ (readPos_ # pre.readPos /\ writePos_ # pre.writePos) => last.op = "clear"

\* a stereo push that moved writePos onto a readPos that is not 0
C16_Witness ==
    /\ kind = "Stereo" /\ N = 4
    /\ last.op = "push"
    /\ pre.readPos = 1 /\ pre.writePos = 0
    /\ writePos_ = 1 /\ readPos_ = 1

\* C17: StereoRingBuffer is SimpleRingBuffer on two arrays: each operation
\* leaves the cursors a SimpleRingBuffer would have, leaves in bufL_ (bufR_) the
\* array and returns on the left (right) the result a SimpleRingBuffer holding
\* bufL_ (bufR_) and given the left (right) values would; popall returns two
\* sequences of equal length whose i-th entries come from the same slot.  The
\* values given by a bulk push are the first min(|vL|, |vR|) of each vector.
C17_StereoIsSimpleTwice ==
    kind = "Stereo" =>
        /\ last.op = "push" =>
              /\ bufL_ = [pre.bufL EXCEPT ![pre.writePos] = last.argL[1]]
              /\ bufR_ = [pre.bufR EXCEPT ![pre.writePos] = last.argR[1]]
              /\ writePos_ = (pre.writePos + 1) % N
              /\ readPos_ = pre.readPos
        /\ last.op = "pushv" =>
              LET m  == Min(Len(last.argL), Len(last.argR))
                  sL == pushArray(pre.bufL, pre.writePos, SubSeq(last.argL, 1, m), m)
                  sR == pushArray(pre.bufR, pre.writePos, SubSeq(last.argR, 1, m), m)
              IN  /\ bufL_ = sL.buf /\ bufR_ = sR.buf
                  /\ writePos_ = sL.writePos /\ writePos_ = sR.writePos
                  /\ readPos_ = pre.readPos
        /\ last.op = "pop" =>
              LET sL == pop(pre.bufL, pre.readPos, pre.writePos)
                  sR == pop(pre.bufR, pre.readPos, pre.writePos)
              IN  /\ bufL_ = sL.buf /\ bufR_ = sR.buf
                  /\ readPos_ = sL.readPos /\ readPos_ = sR.readPos
                  /\ writePos_ = pre.writePos
                  /\ last.retL = IF sL.has THEN <<sL.item>> ELSE <<>>
                  /\ last.retR = IF sR.has THEN <<sR.item>> ELSE <<>>
        /\ last.op = "popall" =>
              LET sL == popall(pre.bufL, pre.readPos, pre.writePos)
                  sR == popall(pre.bufR, pre.readPos, pre.writePos)
              IN  /\ bufL_ = sL.buf /\ bufR_ = sR.buf
                  /\ readPos_ = sL.readPos /\ readPos_ = sR.readPos
                  /\ writePos_ = pre.writePos
                  /\ last.retL = sL.v
                  /\ last.retR = sR.v
                  /\ Len(last.retL) = Len(last.retR)
                  /\ \A i \in 1..Len(last.retL) :
                        /\ last.retL[i] = pre.bufL[(pre.readPos + i - 1) % N]
                        /\ last.retR[i] = pre.bufR[(pre.readPos + i - 1) % N]
        /\ last.op = "clear" => readPos_ = 0 /\ writePos_ = 0

\* a stereo popall() that returned three frames lying across the end of the
\* arrays
C17_Witness ==
    /\ kind = "Stereo" /\ N = 4
    /\ last.op = "popall"
    /\ pre.readPos = 2 /\ pre.writePos = 1
    /\ Len(last.retL) = 3
    /\ last.retR = Negated(last.retL)

\* C18: push(vL, vR) with vectors of different lengths does what the pointer
\* form does with the first m = min(|vL|, |vR|) elements of each: writePos
\* advances by m modulo N, readPos stays, and no element of the longer vector
\* after its first m is in the arrays.
C18_PushVectorsTruncates ==
    (kind = "Stereo" /\ last.op = "pushv") =>
        LET m == Min(Len(last.argL), Len(last.argR))
            e == stereoPushArray(pre.bufL, pre.bufR, pre.writePos,
                                 SubSeq(last.argL, 1, m), SubSeq(last.argR, 1, m), m)
        IN  /\ bufL_ = e.bufL
            /\ bufR_ = e.bufR
            /\ writePos_ = e.writePos
            /\ writePos_ = (pre.writePos + m) % N
            /\ readPos_ = pre.readPos
            /\ \A i \in 0..(N - 1) :
                  /\ \A j \in (m + 1)..Len(last.argL) : bufL_[i] # last.argL[j]
                  /\ \A j \in (m + 1)..Len(last.argR) : bufR_[i] # last.argR[j]

\* a bulk push of three left and two right values that wrapped
C18_Witness ==
    /\ kind = "Stereo" /\ N = 2
    /\ last.op = "pushv"
    /\ Len(last.argL) = 3 /\ Len(last.argR) = 2
    /\ pre.writePos = 1 /\ writePos_ = 1
    /\ bufL_[1] = last.argL[1] /\ bufR_[1] = last.argR[1]
    /\ bufL_[0] = last.argL[2] /\ bufR_[0] = last.argR[2]

\* C29: the usable capacity of the ring buffer is N - 1: in every reachable
\* state size() is at most N - 1, popall() never returns more than N - 1
\* elements, and N - 1 is the largest k for which k pushes into an empty
\* buffer with no pops can all be retrieved afterwards (k pushes are all
\* there to be read, and are all returned by popall, exactly when k <= N - 1).
C29_CapacityIsNMinus1 ==
    /\ size <= N - 1
    /\ last.op = "size" => last.retL[1] <= N - 1
    /\ last.op = "popall" =>
          Len(last.retL) <= N - 1 /\ Len(last.retR) <= N - 1
    /\ runOk => (size = Len(run) <=> Len(run) <= N - 1)
    /\ (last.op = "popall" /\ pre.runOk) =>
          /\ last.retL = pre.run <=> Len(pre.run) <= N - 1
          /\ Len(pre.run) >= N => Len(last.retL) < Len(pre.run)

\* popall() after N + 1 pushes into an empty buffer of 4 returned one element
C29_Witness ==
    /\ N = 4
    /\ last.op = "popall" /\ pre.runOk /\ Len(pre.run) = N + 1
    /\ Len(last.retL) = 1
    /\ size = 0

----------------------------------------------------------------------------
(* Properties of the producer and consumer threads (SpecThreads). *)

\* C1: with one producer calling push and one consumer calling pop, as long as
\* the pushes started minus the elements popped never exceeded N - 1, the values
\* returned by the successful pops are a prefix of the pushed values 1, 2, 3, ...
\* (nothing lost, duplicated, reordered, or read before its write completed).
C1_PopsArePrefixOfPushes ==
    (kind = "Simple" /\ ~overrun) =>
        /\ \A i \in 1..Len(popped) : popped[i] = i
        /\ pcC = "advance" => cItemL = Len(popped) + 1

\* C1, where the store to writePos_ is ordered after the store into the array
C1_PrefixWhenStoreOrdered ==
    MemoryOrder = "seq_cst" => C1_PopsArePrefixOfPushes

\* a frame returned by the stereo pop is the pair of one push call
SameFrame(pair) == pair[1] >= 1 /\ pair[2] = -pair[1]

----------------------------------------------------------------------------
(* Properties of the bulk operations of the two threads (SpecBulkThreads). *)

\* a newer element (larger tag) stands before an older one
OutOfOrder(v) == \E i, j \in 1..Len(v) : i < j /\ v[i] > v[j]

\* C14: popall() can return a sequence that is not in push order, newer
\* elements before older ones; it does so only when a push was in progress
\* while it ran and, where the store to writePos_ is ordered after the stores
\* into the array, the producer had got more than N - 1 elements ahead of the
\* consumer.  The witness is the interleaving of the claim: the producer comes
\* round the array after popall() has computed its size.
C14_OutOfOrderOnlyWhenRaced ==
    OutOfOrder(cV) =>
        /\ raced
        /\ MemoryOrder = "seq_cst" => overrun

\* popall() has returned pushed elements out of push order, after the producer
\* had come round the array while it ran
C14_Witness ==
    /\ MemoryOrder = "seq_cst" /\ N = 4
    /\ pcC = "idle"
    /\ OutOfOrder(cV)
    /\ \A i \in 1..Len(cV) : cV[i] >= 1
    /\ lapped
    /\ Len(popped) = Len(cV)

\* the steps the producer's operation in progress still has to take
PRemaining ==
    CASE pcP = "idle"   -> 0
      [] pcP = "load"   -> 3
      [] pcP = "store"  -> Cardinality(pPending)
      [] pcP = "reduce" ->
            LET loops == IF pCount > N THEN (pCount - 1) \div N ELSE 0
            IN  loops + 1 + (pCount - N * loops) + 1
      [] pcP = "copy"   ->
            (IF "buf" \in pPending THEN pCount - pIdx ELSE 0)
                + (IF "writePos" \in pPending THEN 1 ELSE 0)

\* the steps the consumer's operation in progress still has to take
CRemaining ==
    CASE pcC = "idle"    -> 0
      [] pcC = "none"    -> 1
      [] pcC = "read"    -> 2
      [] pcC = "advance" -> 1
      [] pcC = "move"    -> (cCount - cIdx) + 1

\* the producer's (consumer's) position in its operation
PLocals == <<pcP, pPending, pCount, pIdx>>
CLocals == <<pcC, cIdx>>

\* an operation in progress can always take its next step, whatever state the
\* other thread is in, and has a bounded number of steps left
C15_NoStepWaits ==
    /\ pcP # "idle" => ENABLED ProducerStep
    /\ pcC # "idle" => ENABLED ConsumerStep
    /\ PRemaining \in 0..(MaxLen + 2)
    /\ CRemaining \in 0..(N + 1)
    /\ pcP = "reduce" => pCount \in 0..MaxLen
    /\ pcP = "copy" => pCount \in 0..N
    /\ \A sz \in 0..MaxLen :
          /\ Reduce(sz, 0)[1] \in 0..N
          /\ Reduce(sz, 0)[1] + Reduce(sz, 0)[2] = sz

\* each step of an operation in progress brings it one step nearer its end,
\* and no step of the other thread takes it further from it
C15_StepsCountDown ==
    /\ pcP # "idle" =>
          PRemaining' = PRemaining - (IF PLocals' # PLocals THEN 1 ELSE 0)
    /\ pcC # "idle" =>
          CRemaining' = CRemaining - (IF CLocals' # CLocals THEN 1 ELSE 0)
    /\ (pcP = "reduce" /\ pcP' = "reduce" /\ PLocals' # PLocals) =>
          pCount > N /\ pCount' = pCount - N

\* C15: every push, bulk push, pop and popall completes in a bounded number of
\* its own steps whatever the other thread does: no step waits for a cursor
\* value written by the other thread, and the loop of the bulk push that
\* subtracts N while the count is above N ends with a count in [0, N].
C15_OperationsAreBounded ==
    []C15_NoStepWaits /\ [][C15_StepsCountDown]_vars

\* a bulk push of 2N + 1 elements has gone twice round its loop while a
\* popall() that counted N - 1 elements is under way
C15_Witness ==
    /\ N = 2
    /\ pcP = "copy" /\ pOff = 2 * N /\ pCount = 1
    /\ pcC = "move" /\ cCount = N - 1 /\ cIdx = 0

----------------------------------------------------------------------------
(* Properties of the LRU cache (SpecLRU). *)

\* the keys of the nodes of the list
CachedKeys(l) == {l[i].key : i \in 1..Len(l)}

\* C19: after any sequence of get calls on an LRU constructed with maximum
\* M >= 1, the cache (the list and the key index) holds at most M entries.
C19_AtMostMaximum ==
    max_ >= 1 =>
        /\ Len(l_) <= max_
        /\ Cardinality(DOMAIN m_) <= max_
        /\ Cardinality(CachedKeys(l_)) <= max_

\* a get that missed on a cache holding its maximum of two entries returned,
\* and the cache holds two entries
C19_Witness ==
    /\ max_ = 2
    /\ lruLast.outcome = "returned" /\ ~lruLast.hit
    /\ Len(lruPre.l) = max_
    /\ Len(l_) = max_
    /\ lruCalls = MaxCalls

\* the key of the cache whose most recent get is the oldest
LeastRecent(l, order) ==
    CHOOSE k \in CachedKeys(l) :
        \A i, j \in 1..Len(order) :
            (order[i] = k /\ order[j] \in CachedKeys(l)) => j <= i

\* what C20 says of a call of get that returned
EvictsLeastRecent ==
    /\ (~lruLast.hit /\ Len(lruPre.l) = max_) =>
          /\ Len(lruLast.evicted) = 1
          /\ lruLast.evicted[1].key = LeastRecent(lruPre.l, lruPre.order)
          /\ CachedKeys(l_) =
                (CachedKeys(lruPre.l) \ {lruLast.evicted[1].key}) \cup {lruLast.key}
          /\ \A i \in 1..Len(lruPre.l) :
                lruPre.l[i].key \in CachedKeys(l_) =>
                    \E j \in 1..Len(l_) : l_[j] = lruPre.l[i]
    /\ lruLast.hit =>
          /\ lruLast.evicted = <<>>
          /\ CachedKeys(l_) = CachedKeys(lruPre.l)
          /\ Len(l_) = Len(lruPre.l)
          /\ l_[1].key = lruLast.key
          /\ lruOrder[1] = lruLast.key
          /\ Len(l_) >= 2 => LeastRecent(l_, lruOrder) # lruLast.key

\* C20: when get is called with a key that is not cached on an LRU holding
\* maximum >= 1 entries, the call evicts exactly one entry, the one whose most
\* recent get is the oldest, and every other entry stays cached; a get that
\* hits makes its entry the most recently used and evicts nothing.
C20_EvictsLeastRecent ==
    (max_ >= 1 /\ lruLast.op = "get") =>
        /\ (lruLast.key \notin CachedKeys(lruPre.l) /\ Len(lruPre.l) = max_) =>
              lruLast.outcome = "returned" /\ Len(lruLast.evicted) = 1
        /\ lruLast.key \in CachedKeys(lruPre.l) => lruLast.outcome = "returned"
        /\ lruLast.outcome = "returned" => EvictsLeastRecent

\* C20 of the calls that return
C20_EvictsLeastRecentWhenReturned ==
    (max_ >= 1 /\ lruLast.op = "get" /\ lruLast.outcome = "returned") =>
        EvictsLeastRecent

\* the value objects the nodes of the list hold
CachedObjects(l) == {l[i].value.obj : i \in 1..Len(l)}

\* the value the list holds for the key
ValueOf(l, key) == l[CHOOSE i \in 1..Len(l) : l[i].key = key].value

\* what C21 says of a call of get that returned
GetsOrConstructs ==
    /\ lruLast.hit <=> lruLast.key \in CachedKeys(lruPre.l)
    /\ lruLast.hit =>
          /\ lruLast.ret = <<ValueOf(lruPre.l, lruLast.key)>>
          /\ lruLast.ret[1].obj = find(lruPre.m, lruLast.key)
          /\ CachedObjects(l_) = CachedObjects(lruPre.l)
    /\ ~lruLast.hit =>
          /\ lruLast.ret[1].obj \notin CachedObjects(lruPre.l)
          /\ lruLast.ret[1].obj = lruCalls
          /\ CachedObjects(l_) \ CachedObjects(lruPre.l) = {lruLast.ret[1].obj}
          /\ l_[1] = [node |-> lruCalls, key |-> lruLast.key,
                      value |-> lruLast.ret[1]]
          /\ find(m_, lruLast.key) = l_[1].node
    /\ \A i \in 1..Len(l_) :
          /\ l_[i].value.obj = l_[i].node
          /\ l_[i].key \in CachedKeys(lruPre.l) =>
                l_[i].value = ValueOf(lruPre.l, l_[i].key)

\* C21: get(key) for a key that is cached returns the very value object
\* created by the get that inserted the key and constructs nothing; get(key)
\* for a key that is not cached constructs exactly one new value, caches it
\* as the most recently used entry and returns it.  Stated of the caches
\* constructed with a maximum of at least 1.
C21_GetOrConstruct ==
    (max_ >= 1 /\ lruLast.op = "get") =>
        /\ lruLast.outcome = "returned"
        /\ GetsOrConstructs

\* C21 of the calls that return
C21_GetOrConstructWhenReturned ==
    (lruLast.op = "get" /\ lruLast.outcome = "returned") => GetsOrConstructs

\* C22: in the lock-protected configurations every call of get releases the
\* cache lock before it returns, on the miss path as well as on the hit path,
\* so that the lock is free between calls and no later call waits for it.
C22_LockReleasedOnReturn ==
    lockKind # "lock_free" =>
        /\ (lruLast.op = "get" /\ lruLast.outcome = "returned") => ~lock_
        /\ lruLast.outcome # "blocked"

\* C22 of the class that holds the lock in a std::lock_guard
C22_LockGuardReleases ==
    (lockKind = "lock_guard" /\ lruStatus # "crashed") =>
        (~lock_ /\ lruLast.outcome # "blocked")

----------------------------------------------------------------------------
(* Properties of the active set overlay (SpecActiveSet). *)

\* the object is visited by the iteration
IsActive(st, s) == \E i \in 1..Len(Visited(st)) : Visited(st)[i] = s

\* C23: after any sequence of addToActive, removeFromActive, erase and
\* removeAll on an overlay, activeCount equals the number of elements visited
\* by iterating from begin() to end() (and that iteration ends).
C23_CountIsIterationLength ==
    /\ Len(Visited(Overlay)) <= MaxThings
    /\ activeCount = Len(Visited(Overlay))
    /\ asLast.op = "removeAll" => activeCount = 0

\* erase has removed an inner element of an active set of three
C23_Witness ==
    /\ asLast.op = "erase"
    /\ asLast.ret # <<nullptr>>
    /\ asPre.prev[asLast.arg] # nullptr
    /\ asPre.count = 3
    /\ activeCount = 2
    /\ Len(Visited(Overlay)) = 2

\* C24: addToActive of an element that is already active (the only element,
\* the head, the tail or an inner one) changes neither the membership, the
\* iteration order nor activeCount; addToActive of an inactive element makes
\* it a member exactly once.
C24_AddToActiveIdempotent ==
    asLast.op = "addToActive" =>
        IF IsActive(asPre, asLast.arg)
        THEN /\ Overlay = asPre
             /\ Visited(Overlay) = Visited(asPre)
        ELSE /\ Visited(Overlay) = <<asLast.arg>> \o Visited(asPre)
             /\ activeCount = asPre.count + 1

\* the tail of an active set of three was added again
C24_Witness ==
    /\ asLast.op = "addToActive"
    /\ asPre.count = 3
    /\ asPre.next[asLast.arg] = nullptr
    /\ asPre.prev[asLast.arg] # nullptr
    /\ Len(Visited(Overlay)) = 3

\* C25: removeFromActive(s) returns false and changes nothing exactly when s
\* is not active; otherwise it returns true, removes s and only s, keeps the
\* other elements in their relative order, decrements activeCount by one and
\* resets both link pointers of s to null.
C25_RemoveFromActiveEffect ==
    asLast.op = "removeFromActive" =>
        LET s == asLast.arg
        IN  /\ asLast.ret = <<IsActive(asPre, s)>>
            /\ ~IsActive(asPre, s) => Overlay = asPre
            /\ IsActive(asPre, s) =>
                  /\ Visited(Overlay) = SelectSeq(Visited(asPre), LAMBDA t : t # s)
                  /\ activeCount = asPre.count - 1
                  /\ activeSetNext[s] = nullptr
                  /\ activeSetPrev[s] = nullptr
                  /\ \A t \in Things \ {s} :
                        ~IsActive(asPre, t) =>
                            /\ activeSetNext[t] = asPre.next[t]
                            /\ activeSetPrev[t] = asPre.prev[t]

\* removeFromActive has removed an inner element of an active set of three
C25_Witness ==
    /\ asLast.op = "removeFromActive"
    /\ asLast.ret = <<TRUE>>
    /\ asPre.count = 3
    /\ asPre.next[asLast.arg] # nullptr
    /\ asPre.prev[asLast.arg] # nullptr
    /\ Len(Visited(Overlay)) = 2

----------------------------------------------------------------------------
(* Properties of the allocator objects (SpecAllocators). *)

\* the live allocator objects that point at the block
PointingAt(b) == {a \in Allocators : objects[a].alive /\ objects[a].refCount_ = b}

\* what C26 says of the blocks
CountsLiveObjects ==
    \A b \in 1..Len(heap) :
        /\ heap[b].deleted = 0 => heap[b].refCount = Cardinality(PointingAt(b))
        /\ heap[b].deleted <= 1
        /\ heap[b].deleted = 1 <=> PointingAt(b) = {}
        /\ \A a \in PointingAt(b) :
              objects[a].data_ = b /\ objects[a].used_ = b

\* C26: after any sequence of allocator construction, copy, rebind and move
\* construction, assignment and destruction, the shared reference count
\* equals the number of live allocator objects that point at the block, every
\* destructor runs on a valid reference count, and the block is released
\* exactly once, when the last such object is destroyed and never while a
\* live allocator still points at it.
C26_RefCountIsLiveObjects ==
    /\ CountsLiveObjects
    /\ faLast.op = "destroy" => faLast.valid

----------------------------------------------------------------------------
(* Properties of allocate and deallocate (SpecAllocate). *)

\* the bytes of an allocation of n objects at offset at, n * sizeof(T) of
\* them; no set of bytes when n * sizeof(T) is more than any block holds
BytesOf(at, n) ==
    IF SizeGreater(n, MaxBytes) THEN {MaxBytes + 1}
    ELSE {k \in 0..(at + n[1] * sizeofT) : at <= k /\ k < at + n[1] * sizeofT}

\* the usage map changed from before to after on exactly the bytes in range
ChangedExactly(before, after, range, value) ==
    \A k \in 0..(blockN - 1) :
        IF k \in range
        THEN before[k] = ~value /\ after[k] = value
        ELSE after[k] = before[k]

\* what C27 says of the usage map of the block
AllocationsAreDisjointRuns ==
    /\ (faLast.op = "allocate" /\ faLast.outcome = "returned") =>
          LET range == BytesOf(faLast.ret[1], faLast.args[1])
          IN  /\ range \subseteq 0..(blockN - 1)
              /\ ChangedExactly(faPre.heap[1].used, heap[1].used, range, TRUE)
    /\ \A x, y \in faLive :
          x # y => BytesOf(x.at, x.n) \cap BytesOf(y.at, y.n) = {}
    /\ \A k \in 0..(blockN - 1) :
          heap[1].used[k] <=> \E x \in faLive : k \in BytesOf(x.at, x.n)
    /\ faLast.op = "deallocate" =>
          /\ ChangedExactly(faPre.heap[1].used, heap[1].used,
                            BytesOf(faLast.args[1], faLast.args[2]), FALSE)
          /\ faPre.made = <<[at |-> faLast.args[1], n |-> faLast.args[2]]>> =>
                heap[1].used = faPre.before[1].used

\* C27: after any sequence of allocate and deallocate on one block, every
\* successful allocate(n) returns n*sizeof(T) consecutive bytes inside [0, N)
\* that were all free before the call and are all marked used after it, so no
\* two live allocations overlap; deallocate(p, n) marks exactly the bytes of
\* that allocation free and leaves every other byte's mark unchanged, so
\* allocate followed by deallocate of the same block restores the usage map.
C27_AllocationsAreDisjointRuns ==
    faLast.op \in {"allocate", "deallocate"} => AllocationsAreDisjointRuns

\* C27 of the requests n for which n * sizeof(T) fits a std::size_t
C27_DisjointRunsWithoutOverflow ==
    (/\ faLast.op \in {"allocate", "deallocate"}
     /\ \A x \in faLive \cup faPre.live : ~SizeGreater(x.n, MaxBytes)) =>
        AllocationsAreDisjointRuns

----------------------------------------------------------------------------
(* Properties of nodal_erase_if (SpecErase). *)

\* the elements of c for which the predicate is false, in order
Kept(c) == SelectSeq(c, LAMBDA x : x \notin eraseQ)

\* C28: nodal_erase_if(container, predicate) terminates (the loop makes at
\* most one iteration for each element, and goes on until it returns) and
\* leaves in the container exactly the elements for which the predicate is
\* false, each once and in their original relative order; every element for
\* which the predicate is true is removed, including adjacent ones and the
\* first and last element.
C28_ErasesExactlyTheMatching ==
    /\ eraseIt \in 1..EraseEnd
    /\ eraseSteps <= Len(eraseOriginal)
    /\ eraseSteps + (EraseEnd - eraseIt) = Len(eraseOriginal)
    /\ erasePc = "loop" => ENABLED (EraseStep \/ KeepStep \/ EraseReturn)
    /\ SubSeq(eraseContainer, 1, eraseIt - 1)
          = Kept(SubSeq(eraseOriginal, 1, eraseSteps))
    /\ SubSeq(eraseContainer, eraseIt, Len(eraseContainer))
          = SubSeq(eraseOriginal, eraseSteps + 1, Len(eraseOriginal))
    /\ erasePc = "returned" =>
          /\ eraseContainer = Kept(eraseOriginal)
          /\ \A i \in 1..Len(eraseContainer) : eraseContainer[i] \notin eraseQ

\* the call has returned from a container of four whose first two elements
\* and last element matched the predicate and whose third did not
C28_Witness ==
    /\ erasePc = "returned"
    /\ Len(eraseOriginal) = 4
    /\ eraseOriginal[1] \in eraseQ
    /\ eraseOriginal[2] \in eraseQ
    /\ eraseOriginal[3] \notin eraseQ
    /\ eraseOriginal[4] \in eraseQ
    /\ Len(eraseContainer) = 1

----------------------------------------------------------------------------
(* Properties of the bulk push on a buffer in use (SpecUsedBuffer). *)

\* what C30 says of the bulk push that was the last operation
SameAsPushLoop ==
    LET e == pushEach(pre.buf, pre.writePos, last.argL)
    IN  /\ writePos_ = e.writePos
        /\ readPos_ = pre.readPos
        /\ popall(buf_, readPos_, writePos_).v = popall(e.buf, readPos_, e.writePos).v
        /\ pop(buf_, readPos_, writePos_).item = pop(e.buf, readPos_, e.writePos).item

\* C30: for every buffer state, including states with unread elements, and
\* every input sequence of any length (also longer than N), the bulk push of
\* the sequence is equivalent to calling the single-element push once per
\* element in order: the same final writePos and readPos and the same results
\* of every later pop and popall.
C30_BulkPushIsPushLoop ==
    (kind = "Simple" /\ last.op = "pushv") => SameAsPushLoop

\* C30 of the sequences of at most N elements and of those whose length is a
\* multiple of N, and of every sequence pushed into an empty buffer
C30_BulkPushIsPushLoopUpToN ==
    (/\ kind = "Simple" /\ last.op = "pushv"
     /\ \/ Len(last.argL) <= N
        \/ Len(last.argL) % N = 0
        \/ pre.readPos = pre.writePos) => SameAsPushLoop

\* the two segments prepareToRead and prepareToWrite give for count elements
\* at position pos of the array
SegmentsFit(pos, count, sz1, sz2) ==
    /\ sz1 + sz2 = count
    /\ sz1 <= N - pos
    /\ sz2 > 0 <=> pos + count > N

\* C31: for every write position in [0, N) and every count >= 0, bulk push
\* ends with writePos equal to (old writePos + count) mod N and readPos
\* unchanged; a bulk push of an empty sequence changes nothing; the two
\* segments computed by prepareToWrite and prepareToRead add up to the
\* requested count, the first is at most N - position, the second is
\* positive exactly when position + count > N; so every storage index
\* written by bulk push or read by popall is in [0, N).
C31_BulkPushCursorsAndSegments ==
    /\ (kind = "Simple" /\ last.op = "pushv") =>
          LET count == Len(last.argL)
              sz    == Reduce(count, 0)[1]
              p     == prepareToWrite(pre.writePos, sz)
          IN  /\ pre.writePos \in 0..(N - 1)
              /\ writePos_ = (pre.writePos + count) % N
              /\ readPos_ = pre.readPos
              /\ count = 0 => (buf_ = pre.buf /\ writePos_ = pre.writePos)
              /\ p[1] = pre.writePos
              /\ SegmentsFit(p[1], sz, p[2], p[3])
              /\ \A i \in 0..(sz - 1) : CopyIndex(p[1], p[2], i) \in 0..(N - 1)
    /\ (kind = "Simple" /\ last.op = "popall") =>
          LET sz == Len(last.retL)
              p  == prepareToRead(pre.readPos, sz)
          IN  /\ sz = maskBits(SizeSub(pre.writePos, pre.readPos))
              /\ SegmentsFit(pre.readPos, sz, p[1], p[2])
              /\ \A i \in 0..(sz - 1) : MoveIndex(pre.readPos, p[1], i) \in 0..(N - 1)

\* a bulk push of 3 elements at write position 3 of an array of 4 was stored
\* in two segments, one element at index 3 and two from index 0
C31_Witness ==
    /\ N = 4
    /\ last.op = "pushv" /\ Len(last.argL) = 3
    /\ pre.writePos = 3 /\ writePos_ = 2
    /\ prepareToWrite(pre.writePos, 3) = <<3, 1, 2>>
    /\ buf_[3] = last.argL[1] /\ buf_[0] = last.argL[2] /\ buf_[1] = last.argL[3]

\* C32: for every k >= 0 and every empty starting state (readPos == writePos
\* at any index), k single pushes with no pops followed by popall() return
\* exactly the last (k mod N) pushed elements in push order; the other
\* k - (k mod N) elements are never returned by any later pop or popall.
C32_PopallReturnsLastKModN ==
    /\ (kind = "Simple" /\ last.op = "popall" /\ pre.runOk) =>
          LET k == Len(pre.run)
          IN  /\ last.retL = Final(pre.run, k % N)
              /\ \A i \in 1..(k - (k % N)) : pre.run[i] \in lost
              /\ readPos_ = writePos_
    /\ (kind = "Simple" /\ last.op \in {"pop", "popall"}) =>
          \A i \in 1..Len(last.retL) : last.retL[i] \notin lost

\* a buffer of 4 that was empty at index 2 took 5 single pushes, and popall
\* returned the fifth alone
C32_Witness ==
    /\ N = 4
    /\ last.op = "popall" /\ pre.runOk
    /\ pre.readPos = 2 /\ pre.writePos = 3
    /\ pre.run = <<1, 2, 3, 4, 5>>
    /\ last.retL = <<5>>
    /\ lost = {1, 2, 3, 4}

\* a pop returned an element pushed after a popall that had lost elements
C32_LaterPop ==
    /\ lost # {}
    /\ last.op = "pop" /\ last.retL # <<>>

\* C33: with no concurrent push, popall() is equivalent to calling pop()
\* repeatedly until it returns no value: from every buffer state both return
\* the same elements in the same order and leave the same readPos and
\* writePos.
C33_PopallIsPopLoop ==
    /\ kind = "Simple" =>
          LET a == popall(buf_, readPos_, writePos_)
              e == popEach(buf_, readPos_, writePos_)
          IN  a.v = e.v /\ a.readPos = e.readPos
    /\ (kind = "Simple" /\ last.op = "popall") =>
          LET e == popEach(pre.buf, pre.readPos, pre.writePos)
          IN  /\ last.retL = e.v
              /\ readPos_ = e.readPos
              /\ writePos_ = pre.writePos
              /\ buf_ = e.buf

\* popall() returned the three elements of a buffer of 4 that lay at the
\* indices 3, 0 and 1, as three pops would have
C33_Witness ==
    /\ N = 4
    /\ last.op = "popall"
    /\ pre.readPos = 3 /\ pre.writePos = 2
    /\ last.retL = <<pre.buf[3], pre.buf[0], pre.buf[1]>>
    /\ last.retL = popEach(pre.buf, pre.readPos, pre.writePos).v
    /\ readPos_ = 2

----------------------------------------------------------------------------
(* Properties of the LRU index and list (SpecLRU). *)

\* the positions in l of the nodes the iterator refers to
NodesAt(l, iter) == {i \in 1..Len(l) : l[i].node = iter}

\* C34: after any sequence of get calls on an LRU, the key index and the
\* recency list agree: the list holds no key twice, the index has exactly one
\* entry per list element and none for an evicted key, and each index entry
\* refers to the list element that carries the same key.
C34_IndexAndListAgree ==
    lruStatus # "crashed" =>
        /\ \A i, j \in 1..Len(l_) : l_[i].key = l_[j].key => i = j
        /\ DOMAIN m_ = CachedKeys(l_)
        /\ Cardinality(DOMAIN m_) = Len(l_)
        /\ \A k \in DOMAIN m_ :
              /\ m_[k] # End
              /\ \E i \in 1..Len(l_) : NodesAt(l_, m_[k]) = {i} /\ l_[i].key = k
        /\ \A i \in 1..Len(lruLast.evicted) :
              /\ lruLast.evicted[i].key \notin DOMAIN m_
              /\ lruLast.evicted[i].key \notin CachedKeys(l_)
              /\ NodesAt(l_, lruLast.evicted[i].node) = {}

\* a get of a new key on a full cache of 2 evicted a key; the index lost that
\* key and holds the two keys of the list
C34_Witness ==
    /\ max_ = 2 /\ lruStatus = "ok"
    /\ lruLast.op = "get" /\ ~lruLast.hit
    /\ Len(lruLast.evicted) = 1
    /\ lruLast.evicted[1].key \notin DOMAIN m_
    /\ Len(l_) = 2
    /\ DOMAIN m_ = {l_[1].key, l_[2].key}
    /\ l_[1].key = lruLast.key
    /\ l_[NodeAt(l_, m_[l_[2].key])].key = l_[2].key

\* the last get called evict(), and the list it called it on
EvictInvoked ==
    /\ lruLast.op = "get"
    /\ lruLast.outcome # "blocked"
    /\ find(lruPre.m, lruLast.key) = End
    /\ Len(lruPre.l) = max_

\* C35: for every maximum given to the LRU constructor, including 0, evict()
\* is only ever invoked when the recency list is non-empty, so it never reads
\* or removes the last element of an empty list.
C35_EvictOnlyOnNonEmptyList ==
    /\ EvictInvoked => lruPre.l # <<>>
    /\ lruStatus # "crashed"

\* C35 of the caches constructed with a maximum of at least 1
C35_EvictOnNonEmptyWhenMaxPositive ==
    max_ >= 1 =>
        /\ EvictInvoked => (lruPre.l # <<>> /\ Len(lruLast.evicted) = 1)
        /\ lruStatus # "crashed"

----------------------------------------------------------------------------
(* Properties of the links of the active set (SpecActiveSet). *)

\* the objects of the active set
Members(st) == {Visited(st)[i] : i \in 1..Len(Visited(st))}

\* C36: after any sequence of addToActive, removeFromActive, erase and
\* removeAll, the active set is a well-formed doubly linked list: following
\* activeSetNext from activeHead reaches null without visiting an element
\* twice, the head's activeSetPrev is null, x.activeSetNext.activeSetPrev == x
\* for every member x that has a successor, and every element outside the set
\* has both pointers null.
C36_WellFormedList ==
    LET v == Visited(Overlay)
    IN  /\ Len(v) <= MaxThings
        /\ \A i, j \in 1..Len(v) : v[i] = v[j] => i = j
        /\ activeHead # nullptr => activeSetPrev[activeHead] = nullptr
        /\ \A x \in Members(Overlay) :
              activeSetNext[x] # nullptr => activeSetPrev[activeSetNext[x]] = x
        /\ \A i \in 2..Len(v) : activeSetPrev[v[i]] = v[i - 1]
        /\ \A x \in Things \ Members(Overlay) :
              activeSetNext[x] = nullptr /\ activeSetPrev[x] = nullptr

\* the head of an active set of three was removed; its successor is the head
\* now
C36_Witness ==
    /\ asLast.op = "removeFromActive" /\ asLast.ret = <<TRUE>>
    /\ asPre.count = 3
    /\ asLast.arg = asPre.head
    /\ activeHead = asPre.next[asLast.arg]
    /\ activeSetPrev[activeHead] = nullptr
    /\ activeSetNext[asLast.arg] = nullptr /\ activeSetPrev[asLast.arg] = nullptr
    /\ Len(Visited(Overlay)) = 2

\* one iteration of the loop of removeAll removes the head and nothing else
RemoveAllIterationShrinks(st) ==
    st.head # nullptr =>
        LET r == removeFromActive(st, st.head)
        IN  /\ r.ret
            /\ Visited(r.st) = Tail(Visited(st))
            /\ r.st.count = st.count - 1

\* C37: removeAll() terminates from every reachable active set (each
\* iteration of its loop shortens the set by one) and leaves it empty with
\* activeCount == 0 and begin() == end(); erase(it) removes the element at it
\* and returns an iterator to the element that followed it, so a loop that
\* erases through the returned iterator visits every member exactly once and
\* ends at end().
C37_RemoveAllAndEraseLoop ==
    /\ Len(Visited(Overlay)) <= MaxThings
    /\ RemoveAllIterationShrinks(Overlay)
    /\ LET e == removeAll(Overlay)
       IN  e.head = nullptr /\ e.count = 0 /\ Visited(e) = <<>>
    /\ asLast.op = "removeAll" =>
          /\ activeHead = nullptr /\ activeCount = 0
          /\ Visited(Overlay) = <<>>
          /\ \A x \in Things : activeSetNext[x] = nullptr /\ activeSetPrev[x] = nullptr
    /\ (asLast.op = "erase" /\ IsActive(asPre, asLast.arg)) =>
          /\ asLast.ret = <<asPre.next[asLast.arg]>>
          /\ Visited(Overlay) = SelectSeq(Visited(asPre), LAMBDA x : x # asLast.arg)
          /\ \A i \in 1..Len(Visited(asPre)) :
                Visited(asPre)[i] = asLast.arg =>
                    asLast.ret = <<IF i < Len(Visited(asPre))
                                   THEN Visited(asPre)[i + 1] ELSE nullptr>>
    /\ \A q \in SUBSET Things :
          LET lp == EraseLoop(Overlay, activeHead, q, MaxThings + 1)
          IN  /\ lp.visited = Visited(Overlay)
              /\ lp.it = nullptr
              /\ Visited(lp.st) = SelectSeq(Visited(Overlay), LAMBDA x : x \notin q)
              /\ lp.st.count = Len(Visited(lp.st))

\* removeAll() has emptied an active set of all MaxThings objects
C37_Witness ==
    /\ asLast.op = "removeAll"
    /\ asPre.count = MaxThings
    /\ Len(Visited(asPre)) = MaxThings
    /\ activeHead = nullptr /\ activeCount = 0

\* erase of the head of an active set of three returned the iterator to the
\* second element, which is the head now
C37_EraseReturnedFollower ==
    /\ asLast.op = "erase"
    /\ asPre.count = 3 /\ asLast.arg = asPre.head
    /\ asLast.ret = <<activeHead>> /\ activeHead # nullptr

----------------------------------------------------------------------------
(* Properties of the scan of allocate (SpecAllocate). *)

\* n is a number of objects whose bytes do not fit a std::size_t
Wraps(n) == \E i \in 2..NumLimbs : n[i] # 0

\* n * sizeof(T) as a number, cut at blockN + 1 (more than the block holds)
BytesAsked(n) == IF Wraps(n) THEN blockN + 1 ELSE Min(n[1] * sizeofT, blockN + 1)

\* the offsets at which len consecutive free bytes of the usage map start
FreeRuns(used, len) ==
    {s \in 0..(blockN - len) : \A k \in s..(s + len - 1) : ~used[k]}

\* what C38 says of the allocate that was the last operation
ThrowsExactlyWhenNoRun ==
    LET used  == faPre.heap[1].used
        asked == BytesAsked(faLast.args[1])
        runs  == IF asked > blockN THEN {} ELSE FreeRuns(used, asked)
    IN  /\ faLast.outcome \in {"returned", "threw"}
        /\ faLast.outcome = "threw" <=> runs = {}
        /\ faLast.outcome = "returned" =>
              /\ faLast.ret[1] \in runs
              /\ \A s \in runs : faLast.ret[1] <= s
        /\ faLast.outcome = "threw" => heap[1].used = used

\* C38: allocate(n) throws bad_alloc exactly when n*sizeof(T) > N or no run of
\* n*sizeof(T) consecutive free bytes exists in the block; otherwise it
\* succeeds and returns the run with the lowest offset (first fit); a failed
\* allocate leaves the usage map unchanged.
C38_ThrowsExactlyWhenNoRun ==
    faLast.op = "allocate" => ThrowsExactlyWhenNoRun

\* C38 of the calls whose n * sizeof(T) fits a std::size_t, that do not ask
\* for 0 objects while byte 0 is in use in a build with assertions, and whose
\* read behind the usage map does not stop the program
C38_ThrowsExactlyWhenNoRunInRange ==
    (/\ faLast.op = "allocate"
     /\ ~Wraps(faLast.args[1])
     /\ (faLast.args[1][1] = 0 /\ faPre.heap[1].used[0]) => ndebug
     /\ faLast.outcome # "fault") => ThrowsExactlyWhenNoRun

\* C39: during the scan of allocate(n), in every state of the usage map
\* including a completely used block, every index used to read the usage map
\* is in [0, N); the skip over an already allocated region never reads past
\* the end of the map.
C39_ScanReadsInsideMap ==
    faLast.op = "allocate" => ~faLast.beyond

\* C39 of the usage maps whose last byte is free
C39_ScanReadsInsideWhenLastByteFree ==
    (faLast.op = "allocate" /\ ~faPre.heap[1].used[blockN - 1]) => ~faLast.beyond

====
